---- MODULE Spec2Model ----
(***************************************************************************)
(* tsxlib: ordered, key-indexed series (src/src/timeseries.rs), their      *)
(* index (src/src/index.rs), the join engine (src/src/joins.rs), the       *)
(* integer as-of comparators (src/src/algo/int_utils.rs), the iterators    *)
(* (src/src/timeseries_iterators.rs), the rounding functions               *)
(* (src/src/timeutils.rs) and the channel receiver                         *)
(* (src/src/io/streaming.rs).                                              *)
(*                                                                         *)
(* A series is a record [timeindicies, values] of two sequences.  Rust     *)
(* positions are 0-based; position p of a Vec is element p + 1 of the      *)
(* sequence that models it.  Option<T> is modelled as a sequence of length *)
(* at most one: None is << >> and Some(x) is << x >>.                      *)
(***************************************************************************)
EXTENDS Integers, Sequences, FiniteSets, TLC

VARIABLES
  this,      \* the series an operation is called on
  other,     \* the series passed as the second operand
  call,      \* the operation called last and its arguments
  joined,    \* the alignment the JoinEngine computed for the last join
  res,       \* what the operation returned: Ok(series), an error kind, or a panic
  iter,      \* the iterator object a caller holds, between two calls of next()
  yielded,   \* what the calls of next() returned so far, oldest first
  channel    \* the mpsc channel between a producer thread and a receiver

vars == <<this, other, call, joined, res, iter, yielded, channel>>

-----------------------------------------------------------------------------
(* Bounds of the model *)

MaxKey == 3

MaxLen == 3

MaxTol == 1

MaxChainKey == 2

MaxIterLen == 5

MaxSample == 2

MaxRawLen == 2

MaxMillis == 12

Keys == 0..MaxKey

(* The value type of a series is a type parameter: no operation inspects a  *)
(* value except through the function pointers the caller passes.           *)
Vals == {0, 1}

(* isize and usize, scaled down so that their extremes are values the      *)
(* model reaches: usize holds every length and position, isize half of it. *)
isize_MAX == MaxIterLen + 3

isize_MIN == 0 - isize_MAX - 1

usize_MAX == 2 * isize_MAX + 1

Shifts == isize_MIN..isize_MAX

Tols == 0..MaxTol

SeqsUpTo(S, n) == UNION {[1..k -> S] : k \in 0..n}

None == << >>

Some(x) == << x >>

-----------------------------------------------------------------------------
(* index.rs : HashableIndex *)

is_unique(idx) == Cardinality({idx[i] : i \in DOMAIN idx}) = Len(idx)

is_monotonic(idx) == \A i \in 1..(Len(idx) - 1) : idx[i] < idx[i + 1]

-----------------------------------------------------------------------------
(* data_elements.rs, timeseries.rs : construction *)

TimeSeriesDataPoint(timestamp, value) == [timestamp |-> timestamp, value |-> value]

TimeSeries(timeindicies, values) == [timeindicies |-> timeindicies, values |-> values]

NoSeries == TimeSeries(<< >>, << >>)

Ok(ts) == [kind |-> "Ok", ts |-> ts]

Err(kind) == [kind |-> kind, ts |-> NoSeries]

Panic == [kind |-> "panic", ts |-> NoSeries]

from_vecs_unchecked(timeindicies, values) == TimeSeries(timeindicies, values)

from_vecs_minimal_checks(timeindicies, values) ==
  IF Len(timeindicies) # Len(values)
    THEN Err("InvalidData")
    ELSE Ok(from_vecs_unchecked(timeindicies, values))

from_vecs_no_index_check(timeindicies, values) ==
  from_vecs_minimal_checks(timeindicies, values)

from_vecs(timeindicies, values) ==
  IF ~is_unique(timeindicies) \/ ~is_monotonic(timeindicies)
    THEN Err("InvalidData")
    ELSE from_vecs_minimal_checks(timeindicies, values)

(* Vec::sort_by_key is a stable sort: a point goes after every point whose  *)
(* key is not greater than its own.                                         *)
sort_insert(sorted, dp) ==
  LET n == Cardinality({i \in DOMAIN sorted : sorted[i].timestamp <= dp.timestamp})
  IN  SubSeq(sorted, 1, n) \o <<dp>> \o SubSeq(sorted, n + 1, Len(sorted))

RECURSIVE sort_by_key(_)
sort_by_key(dps) ==
  IF dps = << >>
    THEN << >>
    ELSE sort_insert(sort_by_key(SubSeq(dps, 1, Len(dps) - 1)), dps[Len(dps)])

from_tsdatapoints_as_given(tsdatapoints) ==
  LET index == [i \in 1..Len(tsdatapoints) |-> tsdatapoints[i].timestamp]
      values == [i \in 1..Len(tsdatapoints) |-> tsdatapoints[i].value]
  IN  from_vecs(index, values)

from_tsdatapoints(tsdatapoints) ==
  LET dpc == sort_by_key(tsdatapoints)
      index == [i \in 1..Len(dpc) |-> dpc[i].timestamp]
      values == [i \in 1..Len(dpc) |-> dpc[i].value]
  IN  from_vecs(index, values)

from_tsdatapoints_unchecked(tsdatapoints) ==
  from_vecs_unchecked([i \in 1..Len(tsdatapoints) |-> tsdatapoints[i].timestamp],
                      [i \in 1..Len(tsdatapoints) |-> tsdatapoints[i].value])

(* Result::unwrap *)
unwrap(r) == IF r.kind = "Ok" THEN r ELSE Panic

from_iter_trusting(dps) == Ok(from_tsdatapoints_unchecked(dps))

(* FromIterator for TimeSeries: what Iterator::collect() calls *)
from_iter(dps) == unwrap(from_tsdatapoints(dps))

len(ts) == Len(ts.timeindicies)

at_idx_of(ts, pos) ==
  IF pos < len(ts)
    THEN Some(TimeSeriesDataPoint(ts.timeindicies[pos + 1], ts.values[pos + 1]))
    ELSE None

-----------------------------------------------------------------------------
(* joins.rs : JoinEngine *)

IndexJoinPair(this_idx, other_idx) == [this_idx |-> this_idx, other_idx |-> other_idx]

IndexJoinPotentiallyUnmatchedPair(this_idx, other_idx) ==
  [this_idx |-> this_idx, other_idx |-> other_idx]

prior_func(idx) == IF idx = 0 THEN 0 ELSE idx - 1

fwd_func(idx, otherlen) == IF idx >= otherlen - 1 THEN otherlen - 1 ELSE idx + 1

(* cmp::Ord::cmp on keys *)
cmp(a, b) == IF a < b THEN "Less" ELSE IF a > b THEN "Greater" ELSE "Equal"

(* The hash_precompare feature is off in the default build, so            *)
(* index_is_same() returns its initial value.                              *)
index_is_same(idx_this, idx_other) == FALSE

JoinState(pos1, pos2, output) ==
  [pos1 |-> pos1, pos2 |-> pos2, output |-> output, panicked |-> FALSE]

(* One iteration of the while loop of get_inner_merge_joined_indicies *)
inner_merge_step_advancing_this(idx_this, idx_other, st) ==
  LET ord == cmp(idx_this[st.pos1 + 1], idx_other[st.pos2 + 1])
  IN  CASE ord = "Greater" -> [st EXCEPT !.pos1 = @ + 1]
        [] ord = "Less" -> [st EXCEPT !.pos1 = @ + 1]
        [] ord = "Equal" ->
             [st EXCEPT !.output = Append(@, IndexJoinPair(st.pos1, st.pos2)),
                        !.pos1 = @ + 1,
                        !.pos2 = @ + 1]

inner_merge_step(idx_this, idx_other, st) ==
  LET ord == cmp(idx_this[st.pos1 + 1], idx_other[st.pos2 + 1])
  IN  CASE ord = "Greater" -> [st EXCEPT !.pos2 = @ + 1]
        [] ord = "Less" -> [st EXCEPT !.pos1 = @ + 1]
        [] ord = "Equal" ->
             [st EXCEPT !.output = Append(@, IndexJoinPair(st.pos1, st.pos2)),
                        !.pos1 = @ + 1,
                        !.pos2 = @ + 1]

RECURSIVE inner_merge_loop(_, _, _)
inner_merge_loop(idx_this, idx_other, st) ==
  IF st.pos1 < Len(idx_this) /\ st.pos2 < Len(idx_other)
    THEN inner_merge_loop(idx_this, idx_other, inner_merge_step(idx_this, idx_other, st))
    ELSE st

get_inner_merge_joined_indicies(idx_this, idx_other) ==
  IF index_is_same(idx_this, idx_other)
    THEN JoinState(Len(idx_this), Len(idx_this),
                   [i \in 1..Len(idx_this) |-> IndexJoinPair(i - 1, i - 1)])
    ELSE inner_merge_loop(idx_this, idx_other, JoinState(0, 0, << >>))

(* One iteration of the while loop of get_left_merge_joined_indicies *)
left_merge_step(idx_this, idx_other, st) ==
  LET ord == cmp(idx_this[st.pos1 + 1], idx_other[st.pos2 + 1])
  IN  CASE ord = "Greater" ->
             [st EXCEPT !.output = Append(@, IndexJoinPotentiallyUnmatchedPair(st.pos1, None)),
                        !.pos2 = @ + 1]
        [] ord = "Less" ->
             [st EXCEPT !.output = Append(@, IndexJoinPotentiallyUnmatchedPair(st.pos1, None)),
                        !.pos1 = @ + 1]
        [] ord = "Equal" ->
             [st EXCEPT !.output = Append(@, IndexJoinPotentiallyUnmatchedPair(st.pos1, Some(st.pos2))),
                        !.pos1 = @ + 1,
                        !.pos2 = @ + 1]

RECURSIVE left_merge_loop(_, _, _)
left_merge_loop(idx_this, idx_other, st) ==
  IF st.pos1 < Len(idx_this) /\ st.pos2 < Len(idx_other)
    THEN left_merge_loop(idx_this, idx_other, left_merge_step(idx_this, idx_other, st))
    ELSE st

get_left_merge_joined_indicies(idx_this, idx_other) ==
  IF index_is_same(idx_this, idx_other)
    THEN JoinState(Len(idx_this), Len(idx_this),
                   [i \in 1..Len(idx_this) |-> IndexJoinPotentiallyUnmatchedPair(i - 1, Some(i - 1))])
    ELSE left_merge_loop(idx_this, idx_other, JoinState(0, 0, << >>))

-----------------------------------------------------------------------------
(* algo/int_utils.rs : comparators of the as-of merge.  A comparator      *)
(* returns <<ordering, offset>>.                                           *)

merge_asof_prior_impl(this_key, other_key, other_prior, asoflookback) ==
  LET diff == this_key - other_prior
  IN  IF diff < 0 /\ this_key # other_key THEN <<"Less", 0>>
      ELSE IF diff > asoflookback /\ this_key # other_key THEN <<"Greater", 0>>
      ELSE IF diff <= asoflookback /\ this_key # other_key THEN <<"Equal", -1>>
      ELSE <<"Equal", 0>>

min(a, b) == IF a <= b THEN a ELSE b

max(a, b) == IF a >= b THEN a ELSE b

merge_asof_fwd_impl(this_key, other_key, other_peak, asoflookfwd) ==
  LET diff1 == other_peak - this_key
      diff2 == other_key - this_key
      diff == min(diff1, max(diff2, 0))
      offset == IF diff = diff2 THEN 0 ELSE 1
  IN  IF diff < 0 /\ this_key # other_key THEN <<"Greater", 0>>
      ELSE IF diff > asoflookfwd /\ this_key # other_key THEN <<"Less", 0>>
      ELSE IF diff <= asoflookfwd /\ this_key # other_key THEN <<"Equal", offset>>
      ELSE <<"Equal", 0>>

merge_asof_prior(look_back) == [impl |-> "merge_asof_prior", free_param |-> look_back]

merge_asof_fwd(look_fwd) == [impl |-> "merge_asof_fwd", free_param |-> look_fwd]

(* merge_asof_frontend: the boxed closure applied to its three keys *)
merge_asof_frontend(func, this_key, other_key, other_peak) ==
  IF func.impl = "merge_asof_prior"
    THEN merge_asof_prior_impl(this_key, other_key, other_peak, func.free_param)
    ELSE merge_asof_fwd_impl(this_key, other_key, other_peak, func.free_param)

(* comp_func of get_asof_merge_joined_indicies: the supplied comparator,   *)
(* or the built-in ordinal compare with offset 0                           *)
comp_func(compare_func, this_key, other_key, other_prior) ==
  IF compare_func = None
    THEN <<cmp(this_key, other_key), 0>>
    ELSE merge_asof_frontend(compare_func[1], this_key, other_key, other_prior)

(* cand_idx_func: other_idx_func is None, Some("prior_func") or            *)
(* Some("fwd_func") with the length of other captured                     *)
cand_idx_func(other_idx_func, idx, otherlen) ==
  IF other_idx_func = None THEN idx
  ELSE IF other_idx_func[1] = "prior_func" THEN prior_func(idx)
  ELSE fwd_func(idx, otherlen)

(* One iteration of the while loop of get_asof_merge_joined_indicies.      *)
(* idx0.try_into().unwrap() panics when pos2 + offset is negative.         *)
asof_merge_step(idx_this, idx_other, compare_func, other_idx_func, st) ==
  LET this_key == idx_this[st.pos1 + 1]
      other_key == idx_other[st.pos2 + 1]
      cand == idx_other[cand_idx_func(other_idx_func, st.pos2, Len(idx_other)) + 1]
      comp_res == comp_func(compare_func, this_key, other_key, cand)
      offset == comp_res[2]
      idx0 == st.pos2 + offset
  IN  CASE comp_res[1] = "Greater" ->
             [st EXCEPT !.output = Append(@, IndexJoinPotentiallyUnmatchedPair(st.pos1, None)),
                        !.pos1 = @ + 1]
        [] comp_res[1] = "Less" ->
             [st EXCEPT !.output = Append(@, IndexJoinPotentiallyUnmatchedPair(st.pos1, None)),
                        !.pos1 = @ + 1]
        [] comp_res[1] = "Equal" ->
             IF idx0 < 0
               THEN [st EXCEPT !.panicked = TRUE]
               ELSE [st EXCEPT !.output = Append(@, IndexJoinPotentiallyUnmatchedPair(st.pos1, Some(idx0))),
                               !.pos2 = IF this_key = other_key THEN @ + 1 ELSE @,
                               !.pos1 = @ + 1]

RECURSIVE asof_merge_loop(_, _, _, _, _)
asof_merge_loop(idx_this, idx_other, compare_func, other_idx_func, st) ==
  IF ~st.panicked /\ st.pos1 < Len(idx_this) /\ st.pos2 < Len(idx_other)
    THEN asof_merge_loop(idx_this, idx_other, compare_func, other_idx_func,
                         asof_merge_step(idx_this, idx_other, compare_func, other_idx_func, st))
    ELSE st

get_asof_merge_joined_indicies(idx_this, idx_other, compare_func, other_idx_func) ==
  IF index_is_same(idx_this, idx_other)
    THEN JoinState(Len(idx_this), Len(idx_this),
                   [i \in 1..Len(idx_this) |-> IndexJoinPotentiallyUnmatchedPair(i - 1, Some(i - 1))])
    ELSE asof_merge_loop(idx_this, idx_other, compare_func, other_idx_func,
                         JoinState(0, 0, << >>))

-----------------------------------------------------------------------------
(* timeseries_iterators.rs : the shifted iterator.  An arithmetic overflow  *)
(* panics in a build with overflow checks and wraps in one without.        *)

isize_wrap(x) == ((x - isize_MIN) % (usize_MAX + 1)) + isize_MIN

usize_wrap(x) == x % (usize_MAX + 1)

NoIter == [kind |-> "none"]

(* std::sync::mpsc::channel(): the messages in flight, oldest first, and   *)
(* whether the Sender still exists                                         *)
Channel(queue, sender) == [queue |-> queue, sender |-> sender]

NoChannel == Channel(<< >>, FALSE)

ShiftedTimeSeriesIter_new(index, shift, overflow_checks) ==
  LET shift_index == isize_wrap(0 - shift)
      init_index == IF shift_index < 0
                      THEN usize_wrap(isize_wrap(0 - shift_index))
                      ELSE index
  IN  [kind |-> "shifted", index |-> init_index, shift_index |-> shift_index,
       panicked |-> overflow_checks /\ shift = isize_MIN]

(* usize::checked_sub of |delta| / usize::checked_add of delta *)
add_offset(indexer, delta) ==
  IF indexer + delta < 0 \/ indexer + delta > usize_MAX
    THEN None
    ELSE Some(indexer + delta)

(* next(): the iterator after the call and the item it returned *)
ShiftedTimeSeriesIter_next(ts, it, overflow_checks) ==
  LET index == usize_wrap(it.index + 1)
      tsbounds == len(ts)
      timeidx == add_offset(index, isize_wrap(it.shift_index - 1))
      valueidx == usize_wrap(index - 1)
      item == IF timeidx # None /\ max(timeidx[1], valueidx) < tsbounds
                THEN Some(TimeSeriesDataPoint(ts.timeindicies[timeidx[1] + 1],
                                              ts.values[valueidx + 1]))
                ELSE None
  IN  IF it.panicked \/ (overflow_checks /\ (it.index = usize_MAX \/ it.shift_index = isize_MIN))
        THEN [it |-> [it EXCEPT !.panicked = TRUE], item |-> None]
        ELSE [it |-> [it EXCEPT !.index = index], item |-> item]

(* Iterator::collect drains next() until the first None *)
RECURSIVE shift_drain(_, _, _, _)
shift_drain(ts, it, overflow_checks, acc) ==
  LET r == ShiftedTimeSeriesIter_next(ts, it, overflow_checks)
  IN  IF r.it.panicked THEN [panicked |-> TRUE, dps |-> acc]
      ELSE IF r.item = None THEN [panicked |-> FALSE, dps |-> acc]
      ELSE shift_drain(ts, r.it, overflow_checks, Append(acc, r.item[1]))

shift_collect(ts, shift, overflow_checks) ==
  LET d == shift_drain(ts, ShiftedTimeSeriesIter_new(0, shift, overflow_checks),
                       overflow_checks, << >>)
  IN  IF d.panicked THEN Panic ELSE from_iter(d.dps)

-----------------------------------------------------------------------------
(* timeseries.rs : transforms and joins.  The function pointers a caller   *)
(* passes are named by strings.                                            *)

MapFuncs == {"succ", "zero"}

map_func(func, v) == IF func = "succ" THEN (v + 1) % 2 ELSE 0

map(ts, func) ==
  from_vecs_unchecked(ts.timeindicies,
                      [i \in 1..Len(ts.values) |-> map_func(func, ts.values[i])])

map_with_date_func(func, d, v) == IF func = "succ" THEN (d + v) % 2 ELSE 0

map_with_date(ts, func) ==
  from_vecs_unchecked(ts.timeindicies,
                      [i \in 1..Len(ts.values) |->
                         map_with_date_func(func, ts.timeindicies[i], ts.values[i])])

(* between: the loop breaks at the first key above end and skips the keys  *)
(* below start                                                             *)
RECURSIVE between_loop(_, _, _, _, _)
between_loop(ts, start, end, pos, newdps) ==
  IF pos >= len(ts) \/ ts.timeindicies[pos + 1] > end
    THEN newdps
    ELSE between_loop(ts, start, end, pos + 1,
                      IF ts.timeindicies[pos + 1] < start
                        THEN newdps
                        ELSE Append(newdps, TimeSeriesDataPoint(ts.timeindicies[pos + 1],
                                                                ts.values[pos + 1])))

Reverse(seq) == [i \in 1..Len(seq) |-> seq[Len(seq) + 1 - i]]

between_inserting_first(ts, start, end) ==
  from_tsdatapoints_unchecked(Reverse(between_loop(ts, start, end, 0, << >>)))

between(ts, start, end) ==
  from_tsdatapoints_unchecked(between_loop(ts, start, end, 0, << >>))

ApplyFuncs == {"pair", "sum"}

(* apply_func of the joins: (a, b) -> (a, b) as in the tests, or a sum     *)
(* that stays in the value type                                            *)
apply_func(f, a, b) == IF f = "pair" THEN <<a, b>> ELSE (a + b) % 2

cross_apply_inner(ts, oth, f) ==
  LET indexes == get_inner_merge_joined_indicies(ts.timeindicies, oth.timeindicies).output
  IN  from_iter([i \in 1..Len(indexes) |->
                   TimeSeriesDataPoint(ts.timeindicies[indexes[i].this_idx + 1],
                                       apply_func(f, ts.values[indexes[i].this_idx + 1],
                                                     oth.values[indexes[i].other_idx + 1]))])

(* The closure shared by cross_apply_left and merge_apply_asof: indexing   *)
(* other.values out of range panics                                        *)
left_points(ts, oth, indexes) ==
  [i \in 1..Len(indexes) |->
     TimeSeriesDataPoint(ts.timeindicies[indexes[i].this_idx + 1],
                         <<ts.values[indexes[i].this_idx + 1],
                           IF indexes[i].other_idx # None
                             THEN Some(oth.values[indexes[i].other_idx[1] + 1])
                             ELSE None>>)]

left_in_range(oth, indexes) ==
  \A i \in 1..Len(indexes) :
    indexes[i].other_idx # None => indexes[i].other_idx[1] < Len(oth.values)

cross_apply_left(ts, oth) ==
  LET indexes == get_left_merge_joined_indicies(ts.timeindicies, oth.timeindicies).output
  IN  IF left_in_range(oth, indexes) THEN from_iter(left_points(ts, oth, indexes)) ELSE Panic

MergeAsofMode == {"RollPrior", "RollFollowing", "NoRoll"}

(* The first match of merge_apply_asof *)
asof_misuse_never(compare_func, merge_mode) == FALSE

asof_misuse_on_any_mismatch(compare_func, merge_mode) ==
  (merge_mode = "NoRoll") # (compare_func = None)

asof_misuse(compare_func, merge_mode) == merge_mode = "NoRoll" /\ compare_func # None

asof_other_idx_func(merge_mode) ==
  CASE merge_mode = "RollFollowing" -> Some("fwd_func")
    [] merge_mode = "RollPrior" -> Some("prior_func")
    [] merge_mode = "NoRoll" -> None

asof_indexes(ts, oth, compare_func, merge_mode) ==
  get_asof_merge_joined_indicies(ts.timeindicies, oth.timeindicies, compare_func,
                                 asof_other_idx_func(merge_mode))

merge_apply_asof(ts, oth, compare_func, merge_mode) ==
  IF asof_misuse(compare_func, merge_mode)
    THEN Panic
    ELSE LET je == asof_indexes(ts, oth, compare_func, merge_mode)
         IN  IF je.panicked \/ ~left_in_range(oth, je.output)
               THEN Panic
               ELSE from_iter(left_points(ts, oth, je.output))

SelecFuncs == {"left", "right", "rekey"}

(* selec_func of interweave: keep the left point, keep the right point,    *)
(* produce a point under the next key, or produce a point under the same   *)
(* key with the sum of both values                                         *)
selec_func(f, dp1, dp2) ==
  CASE f = "left" -> dp1
    [] f = "right" -> dp2
    [] f = "rekey" -> TimeSeriesDataPoint(dp1.timestamp + 1, dp2.value)
    [] f = "sum" -> TimeSeriesDataPoint(dp1.timestamp, dp1.value + dp2.value)

RECURSIVE interweave_loop_keeping_left(_, _, _, _, _, _)
interweave_loop_keeping_left(ts, oth, f, pos1, pos2, output) ==
  IF ~(pos1 < len(ts) \/ pos2 < len(oth))
    THEN output
  ELSE IF pos1 = len(ts)
    THEN interweave_loop_keeping_left(ts, oth, f, pos1, pos2 + 1,
                                      Append(output, at_idx_of(oth, pos2)[1]))
  ELSE IF pos2 = len(oth)
    THEN interweave_loop_keeping_left(ts, oth, f, pos1 + 1, pos2,
                                      Append(output, at_idx_of(ts, pos1)[1]))
  ELSE LET dp1 == at_idx_of(ts, pos1)[1]
           dp2 == at_idx_of(oth, pos2)[1]
           ord == cmp(dp1.timestamp, dp2.timestamp)
       IN  CASE ord = "Greater" ->
                  interweave_loop_keeping_left(ts, oth, f, pos1, pos2 + 1, Append(output, dp2))
             [] ord = "Less" ->
                  interweave_loop_keeping_left(ts, oth, f, pos1 + 1, pos2, Append(output, dp1))
             [] ord = "Equal" ->
                  interweave_loop_keeping_left(ts, oth, f, pos1 + 1, pos2 + 1,
                                               Append(output, dp1))

RECURSIVE interweave_loop(_, _, _, _, _, _)
interweave_loop(ts, oth, f, pos1, pos2, output) ==
  IF ~(pos1 < len(ts) \/ pos2 < len(oth))
    THEN output
  ELSE IF pos1 = len(ts)
    THEN interweave_loop(ts, oth, f, pos1, pos2 + 1, Append(output, at_idx_of(oth, pos2)[1]))
  ELSE IF pos2 = len(oth)
    THEN interweave_loop(ts, oth, f, pos1 + 1, pos2, Append(output, at_idx_of(ts, pos1)[1]))
  ELSE LET dp1 == at_idx_of(ts, pos1)[1]
           dp2 == at_idx_of(oth, pos2)[1]
           ord == cmp(dp1.timestamp, dp2.timestamp)
       IN  CASE ord = "Greater" ->
                  interweave_loop(ts, oth, f, pos1, pos2 + 1, Append(output, dp2))
             [] ord = "Less" ->
                  interweave_loop(ts, oth, f, pos1 + 1, pos2, Append(output, dp1))
             [] ord = "Equal" ->
                  interweave_loop(ts, oth, f, pos1 + 1, pos2 + 1,
                                  Append(output, selec_func(f, dp1, dp2)))

interweave(ts, oth, f) == unwrap(from_tsdatapoints(interweave_loop(ts, oth, f, 0, 0, << >>)))

-----------------------------------------------------------------------------
(* Construction from caller-supplied vectors *)

Idle == [op |-> "idle"]

NoJoin == JoinState(0, 0, << >>)

InitCtor ==
  /\ this = NoSeries
  /\ other = NoSeries
  /\ call = Idle
  /\ joined = NoJoin
  /\ res = Err("none")
  /\ iter = NoIter
  /\ yielded = << >>
  /\ channel = NoChannel

FromVecs ==
  /\ call.op = "idle"
  /\ \E timeindicies \in SeqsUpTo(Keys, MaxLen + 1), values \in SeqsUpTo(Vals, MaxLen + 1) :
       /\ call' = [op |-> "from_vecs", timeindicies |-> timeindicies, values |-> values]
       /\ res' = from_vecs(timeindicies, values)
  /\ UNCHANGED <<this, other, joined, iter, yielded, channel>>

FromTsDataPoints ==
  /\ call.op = "idle"
  /\ \E tsdatapoints \in SeqsUpTo({TimeSeriesDataPoint(k, v) : k \in Keys, v \in Vals}, MaxLen) :
       /\ call' = [op |-> "from_tsdatapoints", tsdatapoints |-> tsdatapoints]
       /\ res' = from_tsdatapoints(tsdatapoints)
  /\ UNCHANGED <<this, other, joined, iter, yielded, channel>>

NextCtor == FromVecs \/ FromTsDataPoints

SpecCtor == InitCtor /\ [][NextCtor]_vars

HasDuplicate(idx) == \E i, j \in DOMAIN idx : i # j /\ idx[i] = idx[j]

StrictlyIncreasing(idx) == \A i, j \in DOMAIN idx : i < j => idx[i] < idx[j]

(* C1: from_vecs returns InvalidData when the lengths differ, a key is     *)
(* repeated or the index is not strictly increasing in storage order, and  *)
(* otherwise returns Ok with exactly the given index and values.           *)
C1_FromVecsValidates ==
  call.op = "from_vecs" =>
    IF \/ Len(call.timeindicies) # Len(call.values)
       \/ HasDuplicate(call.timeindicies)
       \/ ~StrictlyIncreasing(call.timeindicies)
      THEN res.kind = "InvalidData"
      ELSE /\ res.kind = "Ok"
           /\ res.ts.timeindicies = call.timeindicies
           /\ res.ts.values = call.values

(* A rejected length mismatch over a well-formed index, the rejected       *)
(* indices [1,2,3,3] and [1,2,3,2], and accepted empty and one-element     *)
(* indices are all among the calls made.                                   *)
C1_Witness ==
  /\ call.op = "from_vecs"
  /\ call.timeindicies = <<1, 2, 3, 3>>
  /\ Len(call.values) = 4
  /\ res.kind = "InvalidData"

-----------------------------------------------------------------------------
(* Series a program obtains from the validated constructors *)

Points(keys) == {TimeSeriesDataPoint(k, v) : k \in keys, v \in Vals}

BuiltOver(keys) ==
  {r.ts : r \in {x \in {from_vecs(i, v) : i \in SeqsUpTo(keys, MaxLen),
                                          v \in SeqsUpTo(Vals, MaxLen)}
                        \cup {from_tsdatapoints(dps) : dps \in SeqsUpTo(Points(keys), MaxLen)} :
                   x.kind = "Ok"}}

(* Keys and values of a series, for stating what an operation returns *)

KeySet(ts) == {ts.timeindicies[i] : i \in DOMAIN ts.timeindicies}

PosOf(ts, k) == CHOOSE i \in DOMAIN ts.timeindicies : ts.timeindicies[i] = k

ValueAt(ts, k) == ts.values[PosOf(ts, k)]

Least(S) == CHOOSE m \in S : \A x \in S : m <= x

Greatest(S) == CHOOSE m \in S : \A x \in S : x <= m

RECURSIVE Ascending(_)
Ascending(S) == IF S = {} THEN << >> ELSE <<Least(S)>> \o Ascending(S \ {Least(S)})

-----------------------------------------------------------------------------
(* A program that builds two validated series and applies the public      *)
(* operations to the first, one after the other.  A panic ends it.         *)

ChainKeys == 0..MaxChainKey

Init ==
  LET built == BuiltOver(ChainKeys)
  IN  /\ \E a \in built, b \in built : this = a /\ other = b
      /\ call = Idle
      /\ joined = NoJoin
      /\ res = Ok(this)
      /\ iter = NoIter
      /\ yielded = << >>
      /\ channel = NoChannel

(* The series an operation returns replaces this *)
Adopt(r) == IF r.kind = "Ok" THEN r.ts ELSE this

Map ==
  /\ res.kind # "panic"
  /\ \E func \in MapFuncs : res' = Ok(map(this, func))
  /\ call' = [op |-> "map"]
  /\ this' = Adopt(res')
  /\ UNCHANGED <<other, joined, iter, yielded, channel>>

MapWithDate ==
  /\ res.kind # "panic"
  /\ \E func \in MapFuncs : res' = Ok(map_with_date(this, func))
  /\ call' = [op |-> "map_with_date"]
  /\ this' = Adopt(res')
  /\ UNCHANGED <<other, joined, iter, yielded, channel>>

Between ==
  /\ res.kind # "panic"
  /\ \E start \in ChainKeys, end \in ChainKeys : res' = Ok(between(this, start, end))
  /\ call' = [op |-> "between"]
  /\ this' = Adopt(res')
  /\ UNCHANGED <<other, joined, iter, yielded, channel>>

Shift ==
  /\ res.kind # "panic"
  /\ \E shift \in Shifts, overflow_checks \in BOOLEAN :
       res' = shift_collect(this, shift, overflow_checks)
  /\ call' = [op |-> "shift"]
  /\ this' = Adopt(res')
  /\ UNCHANGED <<other, joined, iter, yielded, channel>>

InnerWith ==
  /\ res.kind # "panic"
  /\ res' = cross_apply_inner(this, other, "sum")
  /\ call' = [op |-> "cross_apply_inner"]
  /\ this' = Adopt(res')
  /\ UNCHANGED <<other, joined, iter, yielded, channel>>

Interweave ==
  /\ res.kind # "panic"
  /\ \E f \in SelecFuncs : res' = interweave(this, other, f)
  /\ call' = [op |-> "interweave"]
  /\ this' = Adopt(res')
  /\ UNCHANGED <<other, joined, iter, yielded, channel>>

Next == Map \/ MapWithDate \/ Between \/ Shift \/ InnerWith \/ Interweave

Spec == Init /\ [][Next]_vars

Valid(ts) ==
  /\ Len(ts.timeindicies) = Len(ts.values)
  /\ \A i, j \in DOMAIN ts.timeindicies : i < j => ts.timeindicies[i] < ts.timeindicies[j]

(* C2: every series obtained from validated series by map, map_with_date,  *)
(* between, shift collected, cross_apply_inner and interweave has as many  *)
(* values as keys and a strictly increasing index.                         *)
C2_ValidityIsInvariant ==
  /\ Valid(this)
  /\ Valid(other)
  /\ res.kind = "Ok" => Valid(res.ts)

(* A series that a shift returned and that holds a key no constructed      *)
(* series has, so a key that the tie-break of an earlier interweave made.  *)
C2_Witness ==
  /\ call.op = "shift"
  /\ res.kind = "Ok"
  /\ res.ts = this
  /\ MaxChainKey + 1 \in KeySet(this)
  /\ Len(this.timeindicies) = 2

-----------------------------------------------------------------------------
(* One join of two validated series *)

InitJoin ==
  LET built == BuiltOver(Keys)
  IN  /\ \E a \in built, b \in built : this = a /\ other = b
      /\ call = Idle
      /\ joined = NoJoin
      /\ res = Err("none")
      /\ iter = NoIter
      /\ yielded = << >>
      /\ channel = NoChannel

CrossApplyInner ==
  /\ call.op = "idle"
  /\ call' = [op |-> "cross_apply_inner"]
  /\ joined' = get_inner_merge_joined_indicies(this.timeindicies, other.timeindicies)
  /\ res' = cross_apply_inner(this, other, "pair")
  /\ UNCHANGED <<this, other, iter, yielded, channel>>

CrossApplyLeft ==
  /\ call.op = "idle"
  /\ call' = [op |-> "cross_apply_left"]
  /\ joined' = get_left_merge_joined_indicies(this.timeindicies, other.timeindicies)
  /\ res' = cross_apply_left(this, other)
  /\ UNCHANGED <<this, other, iter, yielded, channel>>

CompareFuncs ==
  {None} \cup {Some(merge_asof_prior(l)) : l \in Tols} \cup {Some(merge_asof_fwd(l)) : l \in Tols}

MergeApplyAsof ==
  /\ call.op = "idle"
  /\ \E compare_func \in CompareFuncs, merge_mode \in MergeAsofMode :
       /\ call' = [op |-> "merge_apply_asof", compare_func |-> compare_func,
                   merge_mode |-> merge_mode]
       /\ joined' = IF asof_misuse(compare_func, merge_mode)
                       THEN NoJoin
                       ELSE asof_indexes(this, other, compare_func, merge_mode)
       /\ res' = merge_apply_asof(this, other, compare_func, merge_mode)
  /\ UNCHANGED <<this, other, iter, yielded, channel>>

(* this.interweave(&other, selec_func) on two validated series *)
TieBreaks == SelecFuncs \cup {"sum"}

InterweaveOnce ==
  /\ call.op = "idle"
  /\ \E f \in TieBreaks :
       /\ call' = [op |-> "interweave", selec_func |-> f]
       /\ res' = interweave(this, other, f)
  /\ UNCHANGED <<this, other, joined, iter, yielded, channel>>

(* timeseries.rs : key lookups. slice::binary_search halves [lo, hi) until *)
(* it finds the key.                                                       *)
RECURSIVE binary_search(_, _, _, _)
binary_search(s, x, lo, hi) ==
  IF lo >= hi
    THEN [kind |-> "Err", pos |-> lo]
    ELSE LET mid == lo + ((hi - lo) \div 2)
         IN  CASE s[mid + 1] = x -> [kind |-> "Ok", pos |-> mid]
               [] s[mid + 1] < x -> binary_search(s, x, mid + 1, hi)
               [] s[mid + 1] > x -> binary_search(s, x, lo, mid)

at(ts, timestamp) ==
  LET r == binary_search(ts.timeindicies, timestamp, 0, Len(ts.timeindicies))
  IN  IF r.kind = "Ok" THEN Some(ts.values[r.pos + 1]) ELSE None

(* Iterator::position: the 0-based place of the first key above timestamp *)
position_above(ts, timestamp) ==
  LET hits == {i \in DOMAIN ts.timeindicies : timestamp < ts.timeindicies[i]}
  IN  IF hits = {} THEN None ELSE Some(Least(hits) - 1)

at_or_first_prior_keeping_last(ts, timestamp) ==
  LET found == position_above(ts, timestamp)
      pos == IF found # None THEN found[1] ELSE len(ts)
  IN  IF pos > 0 THEN Some(ts.values[pos]) ELSE None

at_or_first_prior(ts, timestamp) ==
  LET maxts == IF len(ts) = 0 THEN None ELSE Some(ts.timeindicies[len(ts)])
      found == position_above(ts, timestamp)
      pos == IF found # None
               THEN found[1]
               ELSE IF maxts # None /\ timestamp > maxts[1] THEN 0 ELSE len(ts)
  IN  IF pos > 0 THEN Some(ts.values[pos]) ELSE None

(* Lookup keys reach one below the least and one above the greatest key *)
Timestamps == (0 - 1)..(MaxKey + 1)

At ==
  /\ call.op = "idle"
  /\ \E timestamp \in Timestamps :
       /\ call' = [op |-> "at", timestamp |-> timestamp]
       /\ res' = [kind |-> "Option", item |-> at(this, timestamp)]
  /\ UNCHANGED <<this, other, joined, iter, yielded, channel>>

AtOrFirstPrior ==
  /\ call.op = "idle"
  /\ \E timestamp \in Timestamps :
       /\ call' = [op |-> "at_or_first_prior", timestamp |-> timestamp]
       /\ res' = [kind |-> "Option", item |-> at_or_first_prior(this, timestamp)]
  /\ UNCHANGED <<this, other, joined, iter, yielded, channel>>

NextJoin ==
  \/ CrossApplyInner \/ CrossApplyLeft \/ MergeApplyAsof \/ InterweaveOnce
  \/ At \/ AtOrFirstPrior

SpecJoin == InitJoin /\ [][NextJoin]_vars

-----------------------------------------------------------------------------
(* The joins *)

(* C3: cross_apply_inner returns exactly the keys present in both series,  *)
(* ascending, each with f(this value at the key, other value at the key).  *)
C3_InnerJoinIsIntersection ==
  call.op = "cross_apply_inner" =>
    /\ res.kind = "Ok"
    /\ res.ts.timeindicies = Ascending(KeySet(this) \cap KeySet(other))
    /\ Len(res.ts.values) = Len(res.ts.timeindicies)
    /\ \A i \in DOMAIN res.ts.timeindicies :
         res.ts.values[i] = <<ValueAt(this, res.ts.timeindicies[i]),
                              ValueAt(other, res.ts.timeindicies[i])>>

(* An inner join of two common keys where this has a key of its own        *)
(* between them, other has a key of its own before them, and the first     *)
(* common key stands at different positions of the two series.             *)
C3_Witness ==
  /\ call.op = "cross_apply_inner"
  /\ res.kind = "Ok"
  /\ Len(res.ts.timeindicies) = 2
  /\ \E k \in KeySet(this) \ KeySet(other) :
       res.ts.timeindicies[1] < k /\ k < res.ts.timeindicies[2]
  /\ \E k \in KeySet(other) \ KeySet(this) : k < res.ts.timeindicies[1]
  /\ PosOf(this, res.ts.timeindicies[1]) # PosOf(other, res.ts.timeindicies[1])

(* C4: cross_apply_left returns one point per key of this, in order, with  *)
(* Some(other value) where the key is a key of other and None elsewhere.   *)
C4_LeftJoinKeepsEveryKey ==
  call.op = "cross_apply_left" =>
    /\ res.kind = "Ok"
    /\ res.ts.timeindicies = this.timeindicies
    /\ Len(res.ts.values) = Len(this.values)
    /\ \A i \in DOMAIN res.ts.timeindicies :
         res.ts.values[i] =
           <<this.values[i],
             IF this.timeindicies[i] \in KeySet(other)
               THEN Some(ValueAt(other, this.timeindicies[i]))
               ELSE None>>

PriorCandidates(k, lookback) == {c \in KeySet(other) : c <= k /\ k <= c + lookback}

FwdCandidates(k, lookfwd) == {c \in KeySet(other) : k <= c /\ c <= k + lookfwd}

IsAsof(merge_mode, impl) ==
  /\ call.op = "merge_apply_asof"
  /\ call.merge_mode = merge_mode
  /\ call.compare_func # None
  /\ call.compare_func[1].impl = impl

(* C5: under RollPrior with merge_asof_prior(L), every emitted point has   *)
(* on its right the value at the greatest key of other that is <= its key  *)
(* and within L of it, and None only when other has no such key.           *)
C5_RollPriorTakesGreatestPrior ==
  (IsAsof("RollPrior", "merge_asof_prior") /\ res.kind = "Ok") =>
    \A i \in DOMAIN res.ts.timeindicies :
      LET k == res.ts.timeindicies[i]
          cands == PriorCandidates(k, call.compare_func[1].free_param)
      IN  res.ts.values[i][2] =
            IF cands = {} THEN None ELSE Some(ValueAt(other, Greatest(cands)))

(* C6: an as-of join with a roll mode and its comparator completes on      *)
(* every pair of valid series, records only positions inside other, and    *)
(* gives None to a key with no candidate within tolerance.                 *)
C6_AsofNeverFails ==
  (IsAsof("RollPrior", "merge_asof_prior") \/ IsAsof("RollFollowing", "merge_asof_fwd")) =>
    /\ res.kind = "Ok"
    /\ ~joined.panicked
    /\ \A i \in DOMAIN joined.output :
         LET e == joined.output[i]
             k == this.timeindicies[e.this_idx + 1]
             cands == IF call.merge_mode = "RollPrior"
                        THEN PriorCandidates(k, call.compare_func[1].free_param)
                        ELSE FwdCandidates(k, call.compare_func[1].free_param)
         IN  /\ e.other_idx # None =>
                  (0 <= e.other_idx[1] /\ e.other_idx[1] < Len(other.timeindicies))
             /\ cands = {} => e.other_idx = None

(* C7: under RollFollowing with merge_asof_fwd(L), every recorded match    *)
(* pairs a key k of this with a key of other in [k, k + L].                *)
C7_RollFollowingWithinLookahead ==
  IsAsof("RollFollowing", "merge_asof_fwd") =>
    \A i \in DOMAIN joined.output :
      LET e == joined.output[i]
          k == this.timeindicies[e.this_idx + 1]
      IN  e.other_idx # None =>
            /\ e.other_idx[1] < Len(other.timeindicies)
            /\ k <= other.timeindicies[e.other_idx[1] + 1]
            /\ other.timeindicies[e.other_idx[1] + 1] <= k + call.compare_func[1].free_param

IsNoRoll ==
  /\ call.op = "merge_apply_asof"
  /\ call.merge_mode = "NoRoll"
  /\ call.compare_func = None

(* C8: with no comparator and NoRoll, every key of this that is a key of   *)
(* other is matched to that key's position, and no other key of this is    *)
(* given a match, as a merge join would do.                                *)
C8_NoRollMatchesEqualKeys ==
  IsNoRoll =>
    /\ \A p \in DOMAIN this.timeindicies :
         this.timeindicies[p] \in KeySet(other) =>
           \E i \in DOMAIN joined.output :
             /\ joined.output[i].this_idx = p - 1
             /\ joined.output[i].other_idx = Some(PosOf(other, this.timeindicies[p]) - 1)
    /\ \A i \in DOMAIN joined.output :
         this.timeindicies[joined.output[i].this_idx + 1] \notin KeySet(other) =>
           joined.output[i].other_idx = None

(* C9: for a non-empty other and every roll mode with its comparator, the  *)
(* series merge_apply_asof returns has exactly one point per key of this,  *)
(* in the order of this.                                                   *)
C9_AsofKeepsEveryKey ==
  (/\ other.timeindicies # << >>
   /\ res.kind = "Ok"
   /\ \/ IsNoRoll
      \/ IsAsof("RollPrior", "merge_asof_prior")
      \/ IsAsof("RollFollowing", "merge_asof_fwd")) =>
    res.ts.timeindicies = this.timeindicies

(* C10: NoRoll together with a supplied comparator panics for every pair   *)
(* of series, before the join engine computes any alignment.               *)
C10_NoRollWithComparatorPanics ==
  (/\ call.op = "merge_apply_asof"
   /\ call.merge_mode = "NoRoll"
   /\ call.compare_func # None) =>
    /\ res.kind = "panic"
    /\ joined = NoJoin

(* The misuse on two non-empty series that a join would have aligned.      *)
C10_Witness ==
  /\ call.op = "merge_apply_asof"
  /\ call.merge_mode = "NoRoll"
  /\ call.compare_func # None
  /\ KeySet(this) \cap KeySet(other) # {}
  /\ res.kind = "panic"

IsRollWithoutComparator ==
  /\ call.op = "merge_apply_asof"
  /\ call.merge_mode \in {"RollPrior", "RollFollowing"}
  /\ call.compare_func = None

(* C11 as stated: a roll mode together with no comparator terminates       *)
(* fatally instead of returning a series.                                  *)
C11_RollModeWithoutComparatorPanics ==
  IsRollWithoutComparator => res.kind = "panic"

(* C11 amended: a roll mode together with no comparator returns a series;  *)
(* the keys are compared ordinally and no roll occurs, so every recorded   *)
(* match pairs a key of this with the equal key of other.                  *)
C11_RollModeWithoutComparatorReturns ==
  IsRollWithoutComparator =>
    /\ res.kind = "Ok"
    /\ ~joined.panicked
    /\ \A i \in DOMAIN joined.output :
         LET e == joined.output[i]
         IN  e.other_idx # None =>
               /\ e.other_idx[1] < Len(other.timeindicies)
               /\ other.timeindicies[e.other_idx[1] + 1] = this.timeindicies[e.this_idx + 1]

(* A roll-prior join without comparator that returned a series holding a   *)
(* matched key and an unmatched one.                                       *)
C11_Witness ==
  /\ IsRollWithoutComparator
  /\ call.merge_mode = "RollPrior"
  /\ res.kind = "Ok"
  /\ \E i, j \in DOMAIN res.ts.values :
       res.ts.values[i][2] # None /\ res.ts.values[j][2] = None

-----------------------------------------------------------------------------
(* A caller that takes one iterator over a validated series and calls      *)
(* next() on it, also after the iterator returned None.                    *)

MaxCalls == MaxIterLen + 2

IterKeys == 0..(MaxIterLen - 1)

(* The series from_vecs returns for the ascending indices over IterKeys *)
IterSeries ==
  UNION {{from_vecs(Ascending(S), values).ts : values \in [1..Cardinality(S) -> Vals]} :
           S \in SUBSET IterKeys}

InitIter ==
  /\ this \in IterSeries
  /\ other = NoSeries
  /\ call = Idle
  /\ joined = NoJoin
  /\ res = Err("none")
  /\ iter = NoIter
  /\ yielded = << >>
  /\ channel = NoChannel

(* What a call of next() leaves behind: nothing is returned by a panic *)
Stepped(r) ==
  /\ iter' = r.it
  /\ yielded' = IF r.it.panicked THEN yielded ELSE Append(yielded, r.item)

MayCallNext(kind) ==
  /\ iter.kind = kind
  /\ ~iter.panicked
  /\ Len(yielded) < MaxCalls

Shifted ==
  /\ iter = NoIter
  /\ \E shift \in Shifts, overflow_checks \in BOOLEAN :
       /\ call' = [op |-> "shift", shift |-> shift, overflow_checks |-> overflow_checks]
       /\ iter' = ShiftedTimeSeriesIter_new(0, shift, overflow_checks)
  /\ UNCHANGED <<this, other, joined, res, yielded, channel>>

ShiftedNext ==
  /\ MayCallNext("shifted")
  /\ Stepped(ShiftedTimeSeriesIter_next(this, iter, call.overflow_checks))
  /\ UNCHANGED <<this, other, call, joined, res, channel>>

abs(n) == IF n < 0 THEN 0 - n ELSE n

(* The i-th item (from 1) the shifted iterator is to return *)
ShiftedItem(ts, n, i) ==
  IF i > max(len(ts) - abs(n), 0) THEN None
  ELSE IF n < 0 THEN Some(TimeSeriesDataPoint(ts.timeindicies[i + abs(n)], ts.values[i]))
  ELSE Some(TimeSeriesDataPoint(ts.timeindicies[i], ts.values[i + n]))

(* C12: for every shift n the shifted iterator yields max(len - |n|, 0)    *)
(* points, the i-th being (key[i + |n|], value[i]) for a lag and           *)
(* (key[i], value[i + n]) for a lead, then None on every later call, and   *)
(* fails on no shift.                                                      *)
C12_ShiftYieldsAlignedPoints ==
  iter.kind = "shifted" =>
    /\ ~iter.panicked
    /\ \A i \in DOMAIN yielded : yielded[i] = ShiftedItem(this, call.shift, i)

-----------------------------------------------------------------------------
(* timeseries_iterators.rs : the rolling iterator *)

Windows == 0..(MaxIterLen + 1)

RECURSIVE sum(_)
sum(buffer) == IF buffer = << >> THEN 0 ELSE Head(buffer) + sum(Tail(buffer))

(* The reductions a caller passes as transform_func *)
RollFuncs == {"sum", "to_vec"}

roll_func(func, buffer) == IF func = "sum" THEN sum(buffer) ELSE buffer

(* new(): window_size - 1 overflows for a window of 0, and the slice       *)
(* values[0..window_size] panics for a window longer than the series.      *)
RollingTimeSeriesIter_new(ts, window_size, transform_func, overflow_checks) ==
  [kind |-> "rolling",
   index |-> usize_wrap(window_size - 1),
   window_size |-> window_size,
   transform_func |-> transform_func,
   buffer |-> SubSeq(ts.values, 1, min(window_size, len(ts))),
   panicked |-> (overflow_checks /\ window_size = 0) \/ window_size > len(ts)]

(* next(): the reduction is applied to the buffer as the previous call     *)
(* left it, then the oldest value is removed and values[index - 1] is      *)
(* inserted at the end.                                                    *)
RollingTimeSeriesIter_next(ts, it) ==
  IF it.index < len(ts)
    THEN LET index == it.index + 1
             rv == ts.values[index]
             newv == roll_func(it.transform_func, it.buffer)
             buffer == Append(Tail(it.buffer), rv)
         IN  [it |-> [it EXCEPT !.index = index, !.buffer = buffer],
              item |-> Some(TimeSeriesDataPoint(ts.timeindicies[index], newv))]
    ELSE [it |-> it, item |-> None]

Rolling ==
  /\ iter = NoIter
  /\ \E window_size \in Windows, transform_func \in RollFuncs, overflow_checks \in BOOLEAN :
       /\ call' = [op |-> "apply_rolling", window_size |-> window_size,
                   overflow_checks |-> overflow_checks]
       /\ iter' = RollingTimeSeriesIter_new(this, window_size, transform_func, overflow_checks)
  /\ UNCHANGED <<this, other, joined, res, yielded, channel>>

RollingNext ==
  /\ MayCallNext("rolling")
  /\ Stepped(RollingTimeSeriesIter_next(this, iter))
  /\ UNCHANGED <<this, other, call, joined, res, channel>>

WindowFits == 1 <= call.window_size /\ call.window_size <= len(this)

(* The window of values that ends at position i (from 1) *)
WindowAt(ts, window, i) == SubSeq(ts.values, i - window + 1, i)

(* C13: for 1 <= window <= len, apply_rolling yields len - window + 1      *)
(* points, the j-th being the key at position window - 1 + j with f of the *)
(* window values that end at that key, and None afterwards.                *)
C13_RollingAppliesToWindow ==
  (iter.kind = "rolling" /\ WindowFits) =>
    /\ ~iter.panicked
    /\ \A j \in DOMAIN yielded :
         LET i == call.window_size - 1 + j
         IN  yielded[j] =
               IF i <= len(this)
                 THEN Some(TimeSeriesDataPoint(this.timeindicies[i],
                        roll_func(iter.transform_func, WindowAt(this, call.window_size, i))))
                 ELSE None

-----------------------------------------------------------------------------
(* timeseries_iterators.rs : the rolling iterator with update.  The        *)
(* accumulator is an Option; update_func and decrement_func are the        *)
(* caller's.                                                               *)

UpdateFuncs == {"add"}

DecrementFuncs == {"sub", "sub_or_none"}

(* As update() of test_rolling_with_update *)
update_func(func, prior, next) ==
  Some((IF prior # None THEN prior[1] ELSE 0) + next)

(* "sub" is decrement() of test_rolling_with_update; "sub_or_none" is      *)
(* undefined, None, where the difference is not positive.                  *)
decrement_func(func, next, prior) ==
  LET v == (IF next # None THEN next[1] ELSE 0) - prior
  IN  IF func = "sub_or_none" /\ v <= 0 THEN None ELSE Some(v)

RECURSIVE fold(_, _, _)
fold(values, init, func) ==
  IF values = << >> THEN init
  ELSE fold(Tail(values), update_func(func, init, Head(values)), func)

(* new(): as for the rolling iterator, window_size - 1 overflows for 0,    *)
(* and the slice and values[window_size - 1] panic outside the series.     *)
RollingTimeSeriesIterWithUpdate_new(ts, window_size, update, decrement, overflow_checks) ==
  LET inside == 1 <= window_size /\ window_size <= len(ts)
  IN  [kind |-> "updating_rolling",
       index |-> usize_wrap(window_size - 1),
       ref_value |-> fold(SubSeq(ts.values, 1, min(window_size, len(ts))), None, update),
       last_value |-> IF inside THEN ts.values[window_size] ELSE 0,
       update_func |-> update,
       decrement_func |-> decrement,
       panicked |-> ~inside]

RollingTimeSeriesIterWithUpdate_next(ts, it) ==
  IF it.index < len(ts)
    THEN LET index == it.index + 1
             rv == ts.values[index]
             updated == update_func(it.update_func, it.ref_value, rv)
             ref_value == decrement_func(it.decrement_func, updated, it.last_value)
         IN  [it |-> [it EXCEPT !.index = index, !.ref_value = ref_value],
              item |-> IF ref_value # None
                         THEN Some(TimeSeriesDataPoint(ts.timeindicies[index], ref_value[1]))
                         ELSE None]
    ELSE [it |-> it, item |-> None]

UpdatingRolling ==
  /\ iter = NoIter
  /\ \E window_size \in Windows, update \in UpdateFuncs, decrement \in DecrementFuncs,
        overflow_checks \in BOOLEAN :
       /\ call' = [op |-> "apply_updating_rolling", window_size |-> window_size,
                   overflow_checks |-> overflow_checks]
       /\ iter' = RollingTimeSeriesIterWithUpdate_new(this, window_size, update, decrement,
                                                      overflow_checks)
  /\ UNCHANGED <<this, other, joined, res, yielded, channel>>

UpdatingRollingNext ==
  /\ MayCallNext("updating_rolling")
  /\ Stepped(RollingTimeSeriesIterWithUpdate_next(this, iter))
  /\ UNCHANGED <<this, other, call, joined, res, channel>>

(* C14: for 1 <= window <= len, apply_updating_rolling with add and        *)
(* subtract yields, like apply_rolling with sum, at each position          *)
(* i >= window - 1 the sum of the window values that end at i.             *)
C14_UpdatingRollingIsRollingSum ==
  (/\ iter.kind = "updating_rolling"
   /\ iter.decrement_func = "sub"
   /\ WindowFits) =>
    /\ ~iter.panicked
    /\ \A j \in DOMAIN yielded :
         LET i == call.window_size - 1 + j
         IN  yielded[j] =
               IF i <= len(this)
                 THEN Some(TimeSeriesDataPoint(this.timeindicies[i],
                                               sum(WindowAt(this, call.window_size, i))))
                 ELSE None

(* Iterator::collect drains next() until the first None *)
RECURSIVE updating_rolling_drain(_, _, _)
updating_rolling_drain(ts, it, acc) ==
  LET r == RollingTimeSeriesIterWithUpdate_next(ts, it)
  IN  IF r.item = None THEN acc ELSE updating_rolling_drain(ts, r.it, Append(acc, r.item[1]))

(* What the first n calls of next() return, however many of them are None *)
RECURSIVE updating_rolling_steps(_, _, _)
updating_rolling_steps(ts, it, n) ==
  IF n = 0 THEN << >>
  ELSE LET r == RollingTimeSeriesIterWithUpdate_next(ts, it)
       IN  <<r.item>> \o updating_rolling_steps(ts, r.it, n - 1)

(* collect() takes the iterator by value *)
Consumed == [kind |-> "consumed"]

(* ts.apply_updating_rolling(window_size, update, decrement).collect() *)
UpdatingRollingCollect ==
  /\ iter = NoIter
  /\ \E window_size \in Windows, update \in UpdateFuncs, decrement \in DecrementFuncs,
        overflow_checks \in BOOLEAN :
       LET it == RollingTimeSeriesIterWithUpdate_new(this, window_size, update, decrement,
                                                     overflow_checks)
       IN  /\ call' = [op |-> "collect_updating_rolling", window_size |-> window_size,
                       update |-> update, decrement |-> decrement,
                       overflow_checks |-> overflow_checks]
           /\ iter' = Consumed
           /\ res' = IF it.panicked THEN Panic
                     ELSE from_iter(updating_rolling_drain(this, it, << >>))
  /\ UNCHANGED <<this, other, joined, yielded, channel>>

(* C15: the series collected from apply_updating_rolling omits the key of  *)
(* a step whose accumulator is None and holds the point of every step,     *)
(* also a later one, whose accumulator is Some.                            *)
C15_NoneStepsAreSkipped ==
  (call.op = "collect_updating_rolling" /\ WindowFits) =>
    /\ res.kind = "Ok"
    /\ LET it == RollingTimeSeriesIterWithUpdate_new(this, call.window_size, call.update,
                                                     call.decrement, call.overflow_checks)
           steps == updating_rolling_steps(this, it, len(this) - call.window_size + 1)
       IN  \A j \in DOMAIN steps :
             LET k == this.timeindicies[call.window_size - 1 + j]
             IN  IF steps[j] = None
                   THEN k \notin KeySet(res.ts)
                   ELSE /\ k \in KeySet(res.ts)
                        /\ ValueAt(res.ts, k) = steps[j][1].value

-----------------------------------------------------------------------------
(* timeseries_iterators.rs : the skip-apply iterator *)

Spans == (0..(MaxIterLen + 1)) \cup {usize_MAX}

(* The reductions a caller passes as transform_func: change_func of        *)
(* test_skip, and the pair of its two arguments.                           *)
SkipFuncs == {"change_func", "pair"}

skip_func(func, prior, curr) == IF func = "change_func" THEN curr - prior ELSE <<prior, curr>>

(* new(): values[0] panics on an empty series *)
SkipApplyTimeSeriesIter_new(ts, span_size, transform_func) ==
  [kind |-> "skip_apply",
   index |-> span_size,
   span_size |-> span_size,
   transform_func |-> transform_func,
   prior_value |-> IF len(ts) > 0 THEN ts.values[1] ELSE 0,
   panicked |-> len(ts) = 0]

SkipApplyTimeSeriesIter_next_keeping_prior(ts, it) ==
  IF it.index - it.span_size + 1 < len(ts)
    THEN LET index == it.index + it.span_size
             here == index - it.span_size
         IN  IF index > usize_MAX \/ here >= len(ts)
               THEN [it |-> [it EXCEPT !.panicked = TRUE], item |-> None]
               ELSE [it |-> [it EXCEPT !.index = index],
                     item |-> Some(TimeSeriesDataPoint(ts.timeindicies[here + 1],
                                skip_func(it.transform_func, it.prior_value, ts.values[here + 1])))]
    ELSE [it |-> it, item |-> None]

(* next(): index += span_size overflows, or values[index - span_size] is   *)
(* read outside the series, and the call panics; in a build without        *)
(* overflow checks the wrapped index is then read, outside the series too. *)
SkipApplyTimeSeriesIter_next(ts, it) ==
  IF it.index - it.span_size + 1 < len(ts)
    THEN LET index == it.index + it.span_size
             here == index - it.span_size
         IN  IF index > usize_MAX \/ here >= len(ts)
               THEN [it |-> [it EXCEPT !.panicked = TRUE], item |-> None]
               ELSE LET rv == ts.values[here + 1]
                    IN  [it |-> [it EXCEPT !.index = index, !.prior_value = rv],
                         item |-> Some(TimeSeriesDataPoint(ts.timeindicies[here + 1],
                                    skip_func(it.transform_func, it.prior_value, rv)))]
    ELSE [it |-> it, item |-> None]

SkipApply ==
  /\ iter = NoIter
  /\ \E span_size \in Spans, transform_func \in SkipFuncs :
       /\ call' = [op |-> "skip_apply", span_size |-> span_size]
       /\ iter' = SkipApplyTimeSeriesIter_new(this, span_size, transform_func)
  /\ UNCHANGED <<this, other, joined, res, yielded, channel>>

SkipApplyNext ==
  /\ MayCallNext("skip_apply")
  /\ Stepped(SkipApplyTimeSeriesIter_next(this, iter))
  /\ UNCHANGED <<this, other, call, joined, res, channel>>

(* The point that pairs position here (from 0) with position prior *)
SkipPoint(ts, func, prior, here) ==
  Some(TimeSeriesDataPoint(ts.timeindicies[here + 1],
                           skip_func(func, ts.values[prior + 1], ts.values[here + 1])))

(* C16 as stated: for span >= 1 the calls that return yield a point        *)
(* (key[i], f(values[i - span], values[i])) for each position i with       *)
(* span <= i < len, one after the other.                                   *)
C16_SkipApplyPairsEveryPosition ==
  (iter.kind = "skip_apply" /\ call.span_size >= 1) =>
    \A j \in DOMAIN yielded :
      LET i == call.span_size + j - 1
      IN  yielded[j] = IF i < len(this)
                         THEN SkipPoint(this, iter.transform_func, i - call.span_size, i)
                         ELSE None

(* C16 amended: for span >= 1 the j-th call that returns yields the point  *)
(* (key[j * span], f(values[(j - 1) * span], values[j * span])) when       *)
(* position j * span is inside the series and None when it is not: only    *)
(* the multiples of span are visited.                                      *)
C16_SkipApplyPairsEverySpanth ==
  (iter.kind = "skip_apply" /\ call.span_size >= 1) =>
    \A j \in DOMAIN yielded :
      LET i == j * call.span_size
      IN  yielded[j] = IF i < len(this)
                         THEN SkipPoint(this, iter.transform_func, i - call.span_size, i)
                         ELSE None

(* A span of 2 over five positions, as in test_skip_2span: positions 2 and *)
(* 4 are visited, positions 1 and 3 are not, and the third call ends.      *)
C16_Witness ==
  /\ iter.kind = "skip_apply"
  /\ ~iter.panicked
  /\ call.span_size = 2
  /\ len(this) = 5
  /\ iter.transform_func = "pair"
  /\ Len(yielded) = 3
  /\ yielded[1] # None
  /\ yielded[2] # None
  /\ yielded[3] = None

NextIter ==
  \/ Shifted \/ ShiftedNext
  \/ Rolling \/ RollingNext
  \/ UpdatingRolling \/ UpdatingRollingNext \/ UpdatingRollingCollect
  \/ SkipApply \/ SkipApplyNext

SpecIter == InitIter /\ [][NextIter]_vars

-----------------------------------------------------------------------------
(* timeseries_iterators.rs : the order-enforcing and the raw iterator.     *)
(* into_ordered_iter and into_iter yield clones, ordered_iter and iter     *)
(* yield references to the same keys and values; next() is the same.       *)

OrderedTimeSeriesIter_new(index, by_ref) ==
  [kind |-> "ordered", by_ref |-> by_ref, index |-> index, priorts |-> None,
   panicked |-> FALSE]

OrderedTimeSeriesIter_next_strict(ts, it) ==
  IF it.index < len(ts)
    THEN LET index == it.index + 1
             key == ts.timeindicies[index]
             rval == Some(TimeSeriesDataPoint(key, ts.values[index]))
         IN  IF it.priorts = None \/ key > it.priorts[1]
               THEN [it |-> [it EXCEPT !.index = index, !.priorts = Some(key)], item |-> rval]
               ELSE [it |-> [it EXCEPT !.index = index], item |-> None]
    ELSE [it |-> it, item |-> None]

(* next(): a key below priorts returns None, with index advanced and       *)
(* priorts kept.                                                           *)
OrderedTimeSeriesIter_next(ts, it) ==
  IF it.index < len(ts)
    THEN LET index == it.index + 1
             key == ts.timeindicies[index]
             rval == Some(TimeSeriesDataPoint(key, ts.values[index]))
         IN  IF it.priorts = None \/ key >= it.priorts[1]
               THEN [it |-> [it EXCEPT !.index = index, !.priorts = Some(key)], item |-> rval]
               ELSE [it |-> [it EXCEPT !.index = index], item |-> None]
    ELSE [it |-> it, item |-> None]

TimeSeriesIter_new(index, by_ref) ==
  [kind |-> "raw", by_ref |-> by_ref, index |-> index, panicked |-> FALSE]

TimeSeriesIter_next(ts, it) ==
  IF it.index < len(ts)
    THEN [it |-> [it EXCEPT !.index = it.index + 1],
          item |-> Some(TimeSeriesDataPoint(ts.timeindicies[it.index + 1],
                                            ts.values[it.index + 1]))]
    ELSE [it |-> it, item |-> None]

(* A caller that builds a series unchecked from data points, in any order  *)
(* and with repeated keys, and iterates over it.                           *)

InitOrdered ==
  /\ this \in {from_tsdatapoints_unchecked(dps) : dps \in SeqsUpTo(Points(Keys), MaxLen)}
  /\ other = NoSeries
  /\ call = Idle
  /\ joined = NoJoin
  /\ res = Err("none")
  /\ iter = NoIter
  /\ yielded = << >>
  /\ channel = NoChannel

IntoOrderedIter ==
  /\ iter = NoIter
  /\ \E by_ref \in BOOLEAN :
       /\ call' = [op |-> IF by_ref THEN "ordered_iter" ELSE "into_ordered_iter"]
       /\ iter' = OrderedTimeSeriesIter_new(0, by_ref)
  /\ UNCHANGED <<this, other, joined, res, yielded, channel>>

OrderedNext ==
  /\ MayCallNext("ordered")
  /\ Stepped(OrderedTimeSeriesIter_next(this, iter))
  /\ UNCHANGED <<this, other, call, joined, res, channel>>

IntoIter ==
  /\ iter = NoIter
  /\ \E by_ref \in BOOLEAN :
       /\ call' = [op |-> IF by_ref THEN "iter" ELSE "into_iter"]
       /\ iter' = TimeSeriesIter_new(0, by_ref)
  /\ UNCHANGED <<this, other, joined, res, yielded, channel>>

RawNext ==
  /\ MayCallNext("raw")
  /\ Stepped(TimeSeriesIter_next(this, iter))
  /\ UNCHANGED <<this, other, call, joined, res, channel>>

(* C17: once next() of the order-enforcing iterator has returned None,     *)
(* every later call returns None, also for an element whose key is not     *)
(* below the last emitted key.                                             *)
C17_OrderedTerminatesPermanently ==
  iter.kind = "ordered" =>
    \A j, k \in DOMAIN yielded : (j < k /\ yielded[j] = None) => yielded[k] = None

(* Iterator::collect drains next() until the first None *)
RECURSIVE ordered_drain(_, _, _)
ordered_drain(ts, it, acc) ==
  LET r == OrderedTimeSeriesIter_next(ts, it)
  IN  IF r.item = None THEN acc ELSE ordered_drain(ts, r.it, Append(acc, r.item[1]))

RECURSIVE raw_drain(_, _, _)
raw_drain(ts, it, acc) ==
  LET r == TimeSeriesIter_next(ts, it)
  IN  IF r.item = None THEN acc ELSE raw_drain(ts, r.it, Append(acc, r.item[1]))

collect_from_unchecked_iter(dps) == from_tsdatapoints_unchecked(dps)

(* ts.into_ordered_iter().collect_from_unchecked_iter() *)
CollectOrdered ==
  /\ iter = NoIter
  /\ call' = [op |-> "collect_ordered"]
  /\ iter' = Consumed
  /\ res' = Ok(collect_from_unchecked_iter(
                 ordered_drain(this, OrderedTimeSeriesIter_new(0, FALSE), << >>)))
  /\ UNCHANGED <<this, other, joined, yielded, channel>>

(* ts.into_iter().collect_from_unchecked_iter() *)
CollectRaw ==
  /\ iter = NoIter
  /\ call' = [op |-> "collect_raw"]
  /\ iter' = Consumed
  /\ res' = Ok(collect_from_unchecked_iter(
                 raw_drain(this, TimeSeriesIter_new(0, FALSE), << >>)))
  /\ UNCHANGED <<this, other, joined, yielded, channel>>

NonDecreasingUpTo(ts, n) == \A i \in 1..(n - 1) : ts.timeindicies[i] <= ts.timeindicies[i + 1]

(* The longest prefix of ts whose keys are non-decreasing *)
OrderedPrefix(ts) ==
  LET n == Greatest({k \in 0..len(ts) : NonDecreasingUpTo(ts, k)})
  IN  TimeSeries(SubSeq(ts.timeindicies, 1, n), SubSeq(ts.values, 1, n))

(* C18: collecting the order-enforcing iterator unchecked gives the        *)
(* longest prefix of the series whose keys are non-decreasing, so the      *)
(* series itself when it is valid; collecting the raw iterator unchecked   *)
(* gives the series itself.                                                *)
C18_UncheckedRoundTrip ==
  /\ call.op = "collect_ordered" =>
       /\ res.kind = "Ok"
       /\ res.ts = OrderedPrefix(this)
       /\ Valid(this) => res.ts = this
  /\ call.op = "collect_raw" => (res.kind = "Ok" /\ res.ts = this)

(* An ordered collection that kept a repeated key and stopped at the first *)
(* smaller key.                                                            *)
C18_Witness ==
  /\ call.op = "collect_ordered"
  /\ len(this) = 3
  /\ this.timeindicies[1] = this.timeindicies[2]
  /\ this.timeindicies[3] < this.timeindicies[2]
  /\ len(res.ts) = 2

-----------------------------------------------------------------------------
(* timeseries.rs : resample_and_agg, with the rounding functions of        *)
(* timeutils.rs as group_func. Keys stand for milliseconds since epoch.    *)

SampleSizes == 1..MaxSample

modulo(a, n) == ((a % n) + n) % n

round_up_to_nearest_duration(timestamp, sample_size) ==
  LET mod_ticks == modulo(timestamp, sample_size)
      delta == max(sample_size - mod_ticks, 0)
  IN  timestamp + delta

round_down_to_nearest_duration(timestamp, sample_size) ==
  timestamp - modulo(timestamp, sample_size)

(* group_func is a function pointer: one of the two rounding functions, or *)
(* a caller's own that is not monotone (the phase within the sample)       *)
GroupFuncs == {"round_up", "round_down", "phase"}

group_func(f, timestamp, sample_size) ==
  CASE f = "round_up" -> round_up_to_nearest_duration(timestamp, sample_size)
    [] f = "round_down" -> round_down_to_nearest_duration(timestamp, sample_size)
    [] f = "phase" -> modulo(timestamp, sample_size)

(* agg_func is a function pointer over the points of one group *)
AggFuncs == {"first", "last", "sum", "count"}

agg_func(f, x) ==
  CASE f = "first" -> x[1].value
    [] f = "last" -> x[Len(x)].value
    [] f = "sum" -> sum([i \in 1..Len(x) |-> x[i].value])
    [] f = "count" -> Len(x)

RECURSIVE group_by_each(_, _, _, _)
group_by_each(dps, f, sample_size, groups) ==
  IF dps = << >>
    THEN groups
    ELSE group_by_each(Tail(dps), f, sample_size,
                       Append(groups, [key |-> group_func(f, Head(dps).timestamp, sample_size),
                                       elems |-> <<Head(dps)>>]))

(* Itertools::group_by: consecutive elements with equal keys form a group *)
RECURSIVE group_by(_, _, _, _)
group_by(dps, f, sample_size, groups) ==
  IF dps = << >>
    THEN groups
    ELSE LET dp == Head(dps)
             key == group_func(f, dp.timestamp, sample_size)
             n == Len(groups)
         IN  IF n > 0 /\ groups[n].key = key
               THEN group_by(Tail(dps), f, sample_size,
                             [groups EXCEPT ![n].elems = Append(@, dp)])
               ELSE group_by(Tail(dps), f, sample_size,
                             Append(groups, [key |-> key, elems |-> <<dp>>]))

resample_and_agg(ts, sample_size, gf, af) ==
  LET groups == group_by(raw_drain(ts, TimeSeriesIter_new(0, TRUE), << >>),
                         gf, sample_size, << >>)
  IN  collect_from_unchecked_iter(
        [j \in 1..Len(groups) |->
           TimeSeriesDataPoint(groups[j].key, agg_func(af, groups[j].elems))])

ResampleAndAgg ==
  /\ iter = NoIter
  /\ \E sample_size \in SampleSizes, gf \in GroupFuncs, af \in AggFuncs :
       /\ call' = [op |-> "resample_and_agg", sample_size |-> sample_size,
                   group_func |-> gf, agg_func |-> af]
       /\ res' = Ok(resample_and_agg(this, sample_size, gf, af))
  /\ iter' = Consumed
  /\ UNCHANGED <<this, other, joined, yielded, channel>>

NextOrdered ==
  \/ IntoOrderedIter \/ OrderedNext \/ CollectOrdered
  \/ IntoIter \/ RawNext \/ CollectRaw
  \/ ResampleAndAgg

SpecOrdered == InitOrdered /\ [][NextOrdered]_vars

-----------------------------------------------------------------------------
(* timeseries.rs : interweave of two validated series *)

PointAt(ts, k) == TimeSeriesDataPoint(k, ValueAt(ts, k))

(* What the claim says interweave returns *)
IsOrderedUnion(f) ==
  /\ res.kind = "Ok"
  /\ Valid(res.ts)
  /\ res.ts.timeindicies = Ascending(KeySet(this) \cup KeySet(other))
  /\ len(res.ts) = len(this) + len(other) - Cardinality(KeySet(this) \cap KeySet(other))
  /\ \A i \in DOMAIN res.ts.timeindicies :
       LET k == res.ts.timeindicies[i]
       IN  res.ts.values[i] =
             IF k \in KeySet(this) \cap KeySet(other)
               THEN selec_func(f, PointAt(this, k), PointAt(other, k)).value
             ELSE IF k \in KeySet(this) THEN ValueAt(this, k)
             ELSE ValueAt(other, k)

(* C19 as stated: for every tie_break, interweave returns a valid series   *)
(* over the union of the two key sets, ascending, where a key of one input *)
(* keeps its value and a common key has the value tie_break returned.      *)
C19_InterweaveIsOrderedUnion ==
  call.op = "interweave" => IsOrderedUnion(call.selec_func)

(* C19 amended: the same, for a tie_break that returns a point under the   *)
(* common key, as one that picks the left or the right point does.         *)
C19_InterweaveIsOrderedUnionWhenKeyKept ==
  (call.op = "interweave" /\ call.selec_func # "rekey") => IsOrderedUnion(call.selec_func)

(* An interweave with a common key between a key only this has and a key   *)
(* only other has, and a tie_break that adds the two values.               *)
C19_Witness ==
  /\ call.op = "interweave"
  /\ call.selec_func = "sum"
  /\ res.kind = "Ok"
  /\ \E a \in KeySet(this) \ KeySet(other), c \in KeySet(this) \cap KeySet(other),
        b \in KeySet(other) \ KeySet(this) : a < c /\ c < b

-----------------------------------------------------------------------------
(* resample_and_agg *)

BucketAt(i) == group_func(call.group_func, this.timeindicies[i], call.sample_size)

(* The positions where a maximal run of equal bucket keys starts *)
RunStarts == {i \in 1..len(this) : i = 1 \/ BucketAt(i) # BucketAt(i - 1)}

RunEnd(s) == Least({e \in s..len(this) : e = len(this) \/ (e + 1) \in RunStarts})

RunPoints(s) ==
  [i \in 1..(RunEnd(s) - s + 1) |->
     TimeSeriesDataPoint(this.timeindicies[s + i - 1], this.values[s + i - 1])]

IsNonDecreasingGroupFunc(f) == f \in {"round_up", "round_down"}

(* C20: resample_and_agg emits, in run order, one point (bucket key,       *)
(* agg_func of the run in input order) per maximal run of consecutive      *)
(* points with equal bucket key; the runs cover every input point once;    *)
(* for a valid series and a non-decreasing group_func the output keys are  *)
(* strictly increasing, one per distinct bucket key; an out-of-order input *)
(* does not fail.                                                          *)
C20_ResampleGroupsConsecutiveRuns ==
  call.op = "resample_and_agg" =>
    LET starts == Ascending(RunStarts)
    IN  /\ res.kind = "Ok"
        /\ len(res.ts) = Len(starts)
        /\ Len(res.ts.values) = Len(starts)
        /\ \A j \in 1..Len(starts) :
             /\ res.ts.timeindicies[j] = BucketAt(starts[j])
             /\ res.ts.values[j] = agg_func(call.agg_func, RunPoints(starts[j]))
        /\ call.agg_func = "count" => sum(res.ts.values) = len(this)
        /\ (Valid(this) /\ IsNonDecreasingGroupFunc(call.group_func)) =>
             /\ Valid(res.ts)
             /\ len(res.ts) = Cardinality({BucketAt(i) : i \in 1..len(this)})

(* A resampling of an out-of-order input of three points in which a run of *)
(* two points with different values was aggregated into one.               *)
C20_Witness ==
  /\ call.op = "resample_and_agg"
  /\ call.group_func = "round_down"
  /\ call.agg_func = "last"
  /\ len(this) = 3
  /\ len(res.ts) = 2
  /\ res.ts.timeindicies[1] # res.ts.timeindicies[2]
  /\ ~Valid(this)
  /\ \E i \in 1..2 : this.values[i] # this.values[i + 1] /\ BucketAt(i) = BucketAt(i + 1)

-----------------------------------------------------------------------------
(* Key lookups *)

(* C21: on a valid series at_or_first_prior(t) returns the value at the    *)
(* greatest key <= t when t lies between the first and the last key, and   *)
(* None when t is before the first key, after the last key, or the series  *)
(* is empty; at(t) returns the value at t iff t is a key, None otherwise.  *)
C21_LookupsReportAbsenceAsNone ==
  /\ call.op = "at_or_first_prior" =>
       /\ res.kind = "Option"
       /\ res.item =
            IF /\ len(this) > 0
               /\ this.timeindicies[1] <= call.timestamp
               /\ call.timestamp <= this.timeindicies[len(this)]
              THEN Some(ValueAt(this, Greatest({k \in KeySet(this) : k <= call.timestamp})))
              ELSE None
  /\ call.op = "at" =>
       /\ res.kind = "Option"
       /\ res.item = IF call.timestamp \in KeySet(this)
                       THEN Some(ValueAt(this, call.timestamp))
                       ELSE None

(* A lookup strictly between two keys that returned the earlier key's      *)
(* value, on a series whose last value differs from it.                    *)
C21_Witness ==
  /\ call.op = "at_or_first_prior"
  /\ len(this) = 3
  /\ this.timeindicies[1] < call.timestamp
  /\ call.timestamp < this.timeindicies[2]
  /\ this.values[1] # this.values[3]
  /\ res.item = Some(this.values[1])

-----------------------------------------------------------------------------
(* Validated construction from data points *)

GivenKeys == [i \in 1..Len(call.tsdatapoints) |-> call.tsdatapoints[i].timestamp]

GivenValues == [i \in 1..Len(call.tsdatapoints) |-> call.tsdatapoints[i].value]

(* C22 as stated: from_tsdatapoints returns an error for every input whose *)
(* keys are not strictly increasing in the order given, and Ok with the    *)
(* points unchanged otherwise.                                             *)
C22_FromPointsRejectsUnordered ==
  call.op = "from_tsdatapoints" =>
    IF StrictlyIncreasing(GivenKeys)
      THEN res.kind = "Ok" /\ res.ts = TimeSeries(GivenKeys, GivenValues)
      ELSE res.kind = "InvalidData"

(* C22 amended: from_tsdatapoints returns an error for every input in      *)
(* which a key occurs more than once; otherwise it returns Ok with the     *)
(* points sorted by key, so unchanged when the keys were given strictly    *)
(* increasing.                                                             *)
C22_FromPointsSortsAndRejectsDuplicates ==
  call.op = "from_tsdatapoints" =>
    IF HasDuplicate(GivenKeys)
      THEN res.kind = "InvalidData"
      ELSE /\ res.kind = "Ok"
           /\ Valid(res.ts)
           /\ KeySet(res.ts) = {GivenKeys[i] : i \in DOMAIN GivenKeys}
           /\ \A i \in DOMAIN GivenKeys : ValueAt(res.ts, GivenKeys[i]) = GivenValues[i]
           /\ StrictlyIncreasing(GivenKeys) => res.ts = TimeSeries(GivenKeys, GivenValues)

(* Three points with distinct keys given out of order, accepted. *)
C22_Witness ==
  /\ call.op = "from_tsdatapoints"
  /\ Len(call.tsdatapoints) = 3
  /\ GivenKeys[1] > GivenKeys[2]
  /\ GivenKeys[2] > GivenKeys[3]
  /\ GivenValues[1] # GivenValues[3]
  /\ res.kind = "Ok"
  /\ res.ts.values[1] = GivenValues[3]

-----------------------------------------------------------------------------
(* The joins called on series a caller built unchecked: keys in any order  *)
(* and repeated, values told apart by their position.                      *)

RawSeries ==
  {from_vecs_unchecked(timeindicies, [i \in 1..Len(timeindicies) |-> i % 2]) :
     timeindicies \in SeqsUpTo(ChainKeys, MaxRawLen)}

InitJoinUnchecked ==
  /\ this \in RawSeries
  /\ other \in RawSeries
  /\ call = Idle
  /\ joined = NoJoin
  /\ res = Err("none")
  /\ iter = NoIter
  /\ yielded = << >>
  /\ channel = NoChannel

NextJoinUnchecked == CrossApplyInner \/ CrossApplyLeft \/ MergeApplyAsof

SpecJoinUnchecked == InitJoinUnchecked /\ [][NextJoinUnchecked]_vars

IsJoin == call.op \in {"cross_apply_inner", "cross_apply_left", "merge_apply_asof"}

(* The join panicked before it had points to collect *)
PanickedBeforeCollect ==
  \/ call.op = "merge_apply_asof" /\ asof_misuse(call.compare_func, call.merge_mode)
  \/ joined.panicked
  \/ call.op # "cross_apply_inner" /\ ~left_in_range(other, joined.output)

(* The points the join hands to its collector, in the order produced *)
Produced ==
  IF call.op = "cross_apply_inner"
    THEN [i \in 1..Len(joined.output) |->
            TimeSeriesDataPoint(this.timeindicies[joined.output[i].this_idx + 1],
                                apply_func("pair", this.values[joined.output[i].this_idx + 1],
                                           other.values[joined.output[i].other_idx + 1]))]
    ELSE left_points(this, other, joined.output)

ProducedKeys == [i \in 1..Len(Produced) |-> Produced[i].timestamp]

(* C23 as stated: a join collects its points unchecked, so on series built *)
(* unchecked it returns the aligned points as produced and never sorts     *)
(* them, rejects them or panics on them.                                   *)
C23_JoinsCollectUnchecked ==
  (IsJoin /\ ~PanickedBeforeCollect) =>
    /\ res.kind = "Ok"
    /\ res.ts = from_tsdatapoints_unchecked(Produced)

(* C23 amended: a join collects its points through the validating          *)
(* collector: it panics when two produced points share a key, and          *)
(* otherwise returns the produced points sorted by key.                    *)
C23_JoinsCollectValidated ==
  (IsJoin /\ ~PanickedBeforeCollect) =>
    IF HasDuplicate(ProducedKeys)
      THEN res.kind = "panic"
      ELSE /\ res.kind = "Ok"
           /\ Valid(res.ts)
           /\ len(res.ts) = Len(Produced)
           /\ \A i \in DOMAIN Produced : ValueAt(res.ts, Produced[i].timestamp) = Produced[i].value

(* A left join of a series whose two keys are out of order that returned   *)
(* the two points in key order.                                            *)
C23_Witness ==
  /\ call.op = "cross_apply_left"
  /\ ~PanickedBeforeCollect
  /\ Len(Produced) = 2
  /\ Produced[1].timestamp > Produced[2].timestamp
  /\ res.kind = "Ok"
  /\ res.ts.values[1] = Produced[2].value

-----------------------------------------------------------------------------
(* Finiteness of the iterators *)

Emitted == {j \in DOMAIN yielded : yielded[j] # None}

(* C24: an iterator the constructor returned emits at most len points, and *)
(* has returned end-of-sequence once next() was called more than len       *)
(* times.                                                                  *)
C24_IteratorsAreFinite ==
  (iter.kind \in {"ordered", "raw", "shifted", "rolling", "updating_rolling", "skip_apply"}
     /\ ~iter.panicked) =>
    /\ Cardinality(Emitted) <= len(this)
    /\ Len(yielded) > len(this) => \E j \in DOMAIN yielded : yielded[j] = None

-----------------------------------------------------------------------------
(* index.rs : sample rates of an index. A Duration is the difference of    *)
(* two keys.                                                               *)

(* Ord of a (count, x) tuple: by count, then by x *)
tuple_lt(a, b) == a[1] < b[1] \/ (a[1] = b[1] /\ a[2] < b[2])

(* BinaryHeap<Reverse<_>>::into_sorted_vec: ascending in Reverse, that is  *)
(* from the greatest tuple to the least                                    *)
RECURSIVE into_sorted_vec_of_plain(_)
into_sorted_vec_of_plain(heap) ==
  IF heap = {}
    THEN << >>
    ELSE LET least == CHOOSE a \in heap : \A b \in heap : a = b \/ tuple_lt(a, b)
         IN  <<least>> \o into_sorted_vec_of_plain(heap \ {least})

RECURSIVE into_sorted_vec(_)
into_sorted_vec(heap) ==
  IF heap = {}
    THEN << >>
    ELSE LET greatest == CHOOSE a \in heap : \A b \in heap : a = b \/ tuple_lt(b, a)
         IN  <<greatest>> \o into_sorted_vec(heap \ {greatest})

most_frequent(array) ==
  LET counts == [x \in {array[i] : i \in DOMAIN array} |->
                   Cardinality({i \in DOMAIN array : array[i] = x})]
  IN  into_sorted_vec({<<counts[x], x>> : x \in DOMAIN counts})

sample_rates(index) ==
  LET timediffs == [i \in 1..(Len(index) - 1) |-> index[i + 1] - index[i]]
  IN  most_frequent(timediffs)

is_mono_intervaled(index) ==
  LET samp_rates == sample_rates(index)
  IN  Len(samp_rates) = 1

(* HashableIndex::new takes any vector of keys *)
InitIndex ==
  /\ this \in {from_vecs_unchecked(values, << >>) : values \in SeqsUpTo(Keys, MaxLen + 1)}
  /\ other = NoSeries
  /\ call = Idle
  /\ joined = NoJoin
  /\ res = Err("none")
  /\ iter = NoIter
  /\ yielded = << >>
  /\ channel = NoChannel

SampleRates ==
  /\ call.op = "idle"
  /\ call' = [op |-> "sample_rates"]
  /\ res' = [kind |-> "Vec", item |-> sample_rates(this.timeindicies)]
  /\ UNCHANGED <<this, other, joined, iter, yielded, channel>>

IsMonoIntervaled ==
  /\ call.op = "idle"
  /\ call' = [op |-> "is_mono_intervaled"]
  /\ res' = [kind |-> "bool", item |-> is_mono_intervaled(this.timeindicies)]
  /\ UNCHANGED <<this, other, joined, iter, yielded, channel>>

NextIndex == SampleRates \/ IsMonoIntervaled

SpecIndex == InitIndex /\ [][NextIndex]_vars

AdjacentPairs == 1..(len(this) - 1)

DiffAt(i) == this.timeindicies[i + 1] - this.timeindicies[i]

(* C25: sample_rates returns one (count, interval) entry per distinct      *)
(* difference of adjacent keys, count being the number of adjacent pairs   *)
(* with that difference, so the counts sum to n - 1 and the list is empty  *)
(* for n <= 1; the entries are ordered by count descending and, for equal  *)
(* counts, by interval descending; is_mono_intervaled is true iff there is *)
(* exactly one distinct difference.                                        *)
C25_SampleRatesRankDifferences ==
  /\ call.op = "sample_rates" =>
       /\ {res.item[j][2] : j \in DOMAIN res.item} = {DiffAt(i) : i \in AdjacentPairs}
       /\ Len(res.item) = Cardinality({DiffAt(i) : i \in AdjacentPairs})
       /\ \A j \in DOMAIN res.item :
            res.item[j][1] = Cardinality({i \in AdjacentPairs : DiffAt(i) = res.item[j][2]})
       /\ sum([j \in DOMAIN res.item |-> res.item[j][1]]) = max(len(this) - 1, 0)
       /\ len(this) <= 1 => res.item = << >>
       /\ \A j, k \in DOMAIN res.item :
            j < k => \/ res.item[j][1] > res.item[k][1]
                     \/ res.item[j][1] = res.item[k][1] /\ res.item[j][2] > res.item[k][2]
  /\ call.op = "is_mono_intervaled" =>
       res.item = (Cardinality({DiffAt(i) : i \in AdjacentPairs}) = 1)

(* Sample rates of four keys with two different differences, the smaller   *)
(* one seen twice and ranked first.                                        *)
C25_Witness ==
  /\ call.op = "sample_rates"
  /\ len(this) = 4
  /\ Len(res.item) = 2
  /\ res.item[1][1] = 2
  /\ res.item[2][1] = 1
  /\ res.item[1][2] < res.item[2][2]

-----------------------------------------------------------------------------
(* io/streaming.rs : a producer thread sends the points of a series over   *)
(* an mpsc channel and a TimeSeriesDataPointReceiver collects them, as in  *)
(* test_reciever_consumer.                                                 *)

(* Sender::send never blocks on an unbounded channel *)
send(ch, dp) == Channel(Append(ch.queue, dp), ch.sender)

drop_sender(ch) == Channel(ch.queue, FALSE)

recv_without_waiting(ch) ==
  IF ch.queue # << >>
    THEN [kind |-> "Ok", tdp |-> Head(ch.queue), ch |-> Channel(Tail(ch.queue), ch.sender)]
    ELSE [kind |-> "Err", ch |-> ch]

(* Receiver::recv returns the oldest message, fails once the channel is    *)
(* empty and the Sender is gone, and blocks otherwise                      *)
recv(ch) ==
  IF ch.queue # << >>
    THEN [kind |-> "Ok", tdp |-> Head(ch.queue), ch |-> Channel(Tail(ch.queue), ch.sender)]
    ELSE IF ~ch.sender
      THEN [kind |-> "Err", ch |-> ch]
      ELSE [kind |-> "blocked", ch |-> ch]

TimeSeriesDataPointReceiver_next(ch) ==
  LET r == recv(ch)
  IN  [ch |-> r.ch, item |-> IF r.kind = "Ok" THEN Some(r.tdp) ELSE None]

(* What the calls of next() returned before end-of-sequence *)
Collected ==
  LET some == SelectSeq(yielded, LAMBDA y : y # None)
  IN  [j \in 1..Len(some) |-> some[j][1]]

(* After thread::spawn: the producer holds the series, its iterator and    *)
(* the Sender; the consumer has started collect().                         *)
InitStream ==
  /\ this \in BuiltOver(Keys)
  /\ other = NoSeries
  /\ call = [op |-> "collect_receiver"]
  /\ joined = NoJoin
  /\ res = Err("none")
  /\ iter = OrderedTimeSeriesIter_new(0, FALSE)
  /\ yielded = << >>
  /\ channel = Channel(<< >>, TRUE)

(* One round of for_each in the producer thread *)
ProducerSend ==
  /\ channel.sender
  /\ LET r == OrderedTimeSeriesIter_next(this, iter)
     IN  /\ r.item # None
         /\ iter' = r.it
         /\ channel' = send(channel, r.item[1])
  /\ UNCHANGED <<this, other, call, joined, res, yielded>>

(* for_each ends and the closure returns, which drops the Sender *)
ProducerExit ==
  /\ channel.sender
  /\ OrderedTimeSeriesIter_next(this, iter).item = None
  /\ iter' = Consumed
  /\ channel' = drop_sender(channel)
  /\ UNCHANGED <<this, other, call, joined, res, yielded>>

(* One call of next() by collect(), which builds the series at None *)
ReceiverNext ==
  /\ res.kind = "none"
  /\ recv(channel).kind # "blocked"
  /\ LET r == TimeSeriesDataPointReceiver_next(channel)
     IN  /\ channel' = r.ch
         /\ yielded' = Append(yielded, r.item)
         /\ res' = IF r.item = None THEN from_iter(Collected) ELSE res
  /\ UNCHANGED <<this, other, call, joined, iter>>

NextStream == ProducerSend \/ ProducerExit \/ ReceiverNext

(* Both threads keep being scheduled *)
SpecStream ==
  /\ InitStream
  /\ [][NextStream]_vars
  /\ WF_vars(ProducerSend \/ ProducerExit)
  /\ WF_vars(ReceiverNext)

AllPoints == [i \in 1..len(this) |-> TimeSeriesDataPoint(this.timeindicies[i], this.values[i])]

(* Delivered and in-flight points are the points sent so far, in order;    *)
(* None is returned only once the Sender is gone and every point was       *)
(* delivered; the collected series is the original.                        *)
ReceiverIsFaithful ==
  call.op = "collect_receiver" =>
    /\ \E k \in 0..len(this) : Collected \o channel.queue = SubSeq(AllPoints, 1, k)
    /\ \A j \in DOMAIN yielded :
         yielded[j] = None => (j = Len(yielded) /\ ~channel.sender /\ Collected = AllPoints)
    /\ res.kind # "panic"
    /\ res.kind = "Ok" => res.ts = this

(* C26: under every interleaving of the producer's sends and the           *)
(* receiver's calls the collection terminates with a series equal to the   *)
(* original, and the receiver returns end-of-sequence only after the       *)
(* sender is gone and all points were delivered in send order.             *)
C26_ReceiverCollectsTheSeries ==
  /\ []ReceiverIsFaithful
  /\ <>(res.kind = "Ok" /\ res.ts = this)

(* The receiver has taken the first of three points before the producer    *)
(* sent the second.                                                        *)
C26_Witness ==
  /\ call.op = "collect_receiver"
  /\ len(this) = 3
  /\ Len(yielded) = 1
  /\ channel.queue = << >>
  /\ channel.sender
  /\ iter.kind = "ordered"
  /\ iter.index = 1

-----------------------------------------------------------------------------
(* joins.rs : the hash inner join *)

(* HashMap::insert in storage order: the last position of a key is kept *)
gen_base_lookup(hashbase) ==
  [key \in {hashbase[i] : i \in DOMAIN hashbase} |->
     Greatest({i \in DOMAIN hashbase : hashbase[i] = key}) - 1]

(* iter().enumerate().map(..).filter(is_some).map(unwrap).collect() over   *)
(* the probing index, from position idx on                                 *)
RECURSIVE hash_probe(_, _, _, _, _)
hash_probe(probing, lookup, probing_is_this, idx, output) ==
  IF idx >= Len(probing)
    THEN output
    ELSE LET key == probing[idx + 1]
         IN  IF key \in DOMAIN lookup
               THEN hash_probe(probing, lookup, probing_is_this, idx + 1,
                               Append(output, IF probing_is_this
                                                THEN IndexJoinPair(idx, lookup[key])
                                                ELSE IndexJoinPair(lookup[key], idx)))
               ELSE hash_probe(probing, lookup, probing_is_this, idx + 1, output)

(* The match compares idx_this.len() with itself, so the lookup is always  *)
(* built over idx_this and this_shorter is always false                    *)
get_inner_hash_joined_indicies(idx_this, idx_other) ==
  IF index_is_same(idx_this, idx_other)
    THEN [i \in 1..Len(idx_this) |-> IndexJoinPair(i - 1, i - 1)]
    ELSE LET this_shorter == ~(Len(idx_this) <= Len(idx_this))
             lookup == IF this_shorter
                         THEN gen_base_lookup(idx_other)
                         ELSE gen_base_lookup(idx_this)
         IN  IF this_shorter
               THEN hash_probe(idx_this, lookup, TRUE, 0, << >>)
               ELSE hash_probe(idx_other, lookup, FALSE, 0, << >>)

(* A JoinEngine over two indices a caller built with HashableIndex::new *)
InitHash ==
  /\ this \in {from_vecs_unchecked(values, << >>) : values \in SeqsUpTo(ChainKeys, MaxLen)}
  /\ other \in {from_vecs_unchecked(values, << >>) : values \in SeqsUpTo(ChainKeys, MaxLen)}
  /\ call = Idle
  /\ joined = NoJoin
  /\ res = Err("none")
  /\ iter = NoIter
  /\ yielded = << >>
  /\ channel = NoChannel

InnerHashJoin ==
  /\ call.op = "idle"
  /\ call' = [op |-> "get_inner_hash_joined_indicies"]
  /\ res' = [kind |-> "Vec",
             item |-> get_inner_hash_joined_indicies(this.timeindicies, other.timeindicies)]
  /\ UNCHANGED <<this, other, joined, iter, yielded, channel>>

NextHash == InnerHashJoin

SpecHash == InitHash /\ [][NextHash]_vars

(* C27: the hash inner join emits one pair for every key common to both    *)
(* indices; the pairs are in the storage order of the longer index, which  *)
(* is the probing one; for valid indices the output is that of the merge   *)
(* inner join.                                                             *)
C27_HashJoinProbesLonger ==
  call.op = "get_inner_hash_joined_indicies" =>
    LET idx_this == this.timeindicies
        idx_other == other.timeindicies
        out == res.item
    IN  /\ (is_unique(idx_this) /\ is_unique(idx_other)) =>
             /\ {<<out[j].this_idx, out[j].other_idx>> : j \in DOMAIN out} =
                  {<<pq[1] - 1, pq[2] - 1>> :
                     pq \in {m \in (DOMAIN idx_this) \X (DOMAIN idx_other) :
                               idx_this[m[1]] = idx_other[m[2]]}}
             /\ Len(out) = Cardinality({idx_this[p] : p \in DOMAIN idx_this} \cap
                                       {idx_other[q] : q \in DOMAIN idx_other})
             /\ Len(idx_this) > Len(idx_other) =>
                  \A j, k \in DOMAIN out : j < k => out[j].this_idx < out[k].this_idx
             /\ Len(idx_other) > Len(idx_this) =>
                  \A j, k \in DOMAIN out : j < k => out[j].other_idx < out[k].other_idx
        /\ (is_unique(idx_this) /\ is_monotonic(idx_this) /\
            is_unique(idx_other) /\ is_monotonic(idx_other)) =>
             out = get_inner_merge_joined_indicies(idx_this, idx_other).output

-----------------------------------------------------------------------------
(* timeutils.rs : rounding a chrono::NaiveDateTime, which is a number of   *)
(* seconds and a number of nanoseconds in the second                       *)

NaiveDateTime(secs, nsecs) == [kind |-> "Ok", secs |-> secs, nsecs |-> nsecs]

(* i64 division and remainder truncate towards zero *)
trunc_div(a, b) == IF a >= 0 THEN a \div b ELSE 0 - ((0 - a) \div b)

trunc_rem(a, b) == a - b * trunc_div(a, b)

(* A negative remainder cast to u32 is above 2^32 - 10^9, and              *)
(* NaiveDateTime::from_timestamp panics on nanoseconds of 2 * 10^9 or more *)
naive_datetime_from_millis(istamp) ==
  LET secs == trunc_div(istamp, 1000)
      rem == trunc_rem(istamp, 1000)
  IN  IF rem < 0 THEN [kind |-> "panic"] ELSE NaiveDateTime(secs, rem * 1000000)

(* NaiveDateTime::timestamp_millis *)
get_utc_millis_since_epoch(dt) == dt.secs * 1000 + dt.nsecs \div 1000000

repr_from_utc_millis(dt, utc_milli_stamp) == naive_datetime_from_millis(utc_milli_stamp)

(* The NaiveDateTime that stands for a number of milliseconds since epoch *)
DateTimeAt(millis) == NaiveDateTime(millis \div 1000, (millis % 1000) * 1000000)

Millis == (0 - MaxMillis)..MaxMillis

InitRound ==
  /\ this = NoSeries
  /\ other = NoSeries
  /\ \E millis \in Millis, sample_size \in SampleSizes :
       call = [op |-> "idle", timestamp |-> DateTimeAt(millis), sample_size |-> sample_size]
  /\ joined = NoJoin
  /\ res = Err("none")
  /\ iter = NoIter
  /\ yielded = << >>
  /\ channel = NoChannel

RoundUp ==
  /\ call.op = "idle"
  /\ call' = [call EXCEPT !.op = "round_up_to_nearest_duration"]
  /\ res' = repr_from_utc_millis(
              call.timestamp,
              round_up_to_nearest_duration(get_utc_millis_since_epoch(call.timestamp),
                                           call.sample_size))
  /\ UNCHANGED <<this, other, joined, iter, yielded, channel>>

RoundDown ==
  /\ call.op = "idle"
  /\ call' = [call EXCEPT !.op = "round_down_to_nearest_duration"]
  /\ res' = repr_from_utc_millis(
              call.timestamp,
              round_down_to_nearest_duration(get_utc_millis_since_epoch(call.timestamp),
                                             call.sample_size))
  /\ UNCHANGED <<this, other, joined, iter, yielded, channel>>

NextRound == RoundUp \/ RoundDown

SpecRound == InitRound /\ [][NextRound]_vars

(* C28: round_up_to_nearest_duration(t, d) returns the smallest multiple   *)
(* of d that is not before t, also for t before the epoch, so a t that is  *)
(* a multiple of d is returned unchanged.                                  *)
C28_RoundUpIsLeastMultipleNotBefore ==
  call.op = "round_up_to_nearest_duration" =>
    LET t == get_utc_millis_since_epoch(call.timestamp)
        d == call.sample_size
    IN  /\ res.kind = "Ok"
        /\ res = DateTimeAt(Least({m \in t..(t + d) : m % d = 0}))
        /\ t % d = 0 => res = call.timestamp

-----------------------------------------------------------------------------
(* Safety of skip_apply *)

(* C29: over a non-empty valid series and with span >= 1, next() of        *)
(* skip_apply never fails on a position outside the series: the calls      *)
(* yield the points at positions span, 2 * span, ... below len, each       *)
(* pairing the value at the position visited before (position 0 first)     *)
(* with the value at this one, and then end-of-sequence.                   *)
C29_SkipApplyStaysInRange ==
  (iter.kind = "skip_apply" /\ call.span_size >= 1 /\ len(this) >= 1) =>
    /\ ~iter.panicked
    /\ \A j \in DOMAIN yielded :
         yielded[j] = IF j * call.span_size < len(this)
                        THEN SkipPoint(this, iter.transform_func,
                                       (j - 1) * call.span_size, j * call.span_size)
                        ELSE None

-----------------------------------------------------------------------------
(* Invariants of the order-enforcing iterator *)

OrderedEmissions ==
  iter.kind = "ordered" =>
    /\ \A j \in DOMAIN yielded :
         yielded[j] # None =>
           /\ j <= len(this)
           /\ yielded[j] = Some(TimeSeriesDataPoint(this.timeindicies[j], this.values[j]))
    /\ \A j, k \in DOMAIN yielded :
         (j < k /\ yielded[j] # None /\ yielded[k] # None) =>
           yielded[j][1].timestamp <= yielded[k][1].timestamp
    /\ \A j \in DOMAIN yielded :
         (j >= 2 /\ j <= len(this) /\ yielded[j - 1] # None
            /\ this.timeindicies[j] = this.timeindicies[j - 1]) => yielded[j] # None

(* C30: whatever calls of next() are made on the order-enforcing iterator, *)
(* also after it returned None, every emitted point is the point at the    *)
(* position of its call, so positions strictly increase; the emitted keys  *)
(* never decrease and a key equal to the one before it is emitted; the     *)
(* series iterated over is not changed.                                    *)
C30_OrderedEmitsNonDecreasingKeys ==
  /\ []OrderedEmissions
  /\ [][iter.kind = "ordered" => this' = this]_vars

(* Three calls over the keys k, a smaller key, k: the second call returned *)
(* None and the third emitted the key equal to the first.                  *)
C30_Witness ==
  /\ iter.kind = "ordered"
  /\ len(this) = 3
  /\ Len(yielded) = 3
  /\ yielded[1] # None
  /\ yielded[2] = None
  /\ yielded[3] # None
  /\ this.timeindicies[3] = this.timeindicies[1]

====
